---- MODULE Spec2Model ----
(***************************************************************************)
(* git-did: repository discovery (findActiveGitRepos), ignore patterns     *)
(* (patternToRegex), date window (calculateDateRange), commit              *)
(* classification (parseCommitsAndDetectRebases), the command line         *)
(* (parseArguments, mergeConfig) and the text report (formatAsText).       *)
(*                                                                         *)
(* Strings are sequences of one-character strings.  Instants are whole     *)
(* seconds counted from 2025-01-01T00:00:00Z.                              *)
(***************************************************************************)
EXTENDS Integers, Sequences, FiniteSets, TLC

VARIABLES
  \* ---- pattern matcher (file-patterns.js) ----
  pattern,      \* the raw line of .didignore handed to patternToRegex
  relPath,      \* the root-relative path handed to regex.test
  regex,        \* result of patternToRegex: [ok, src] (ok = FALSE is null)
  matched,      \* result of shouldIgnorePath(relPath, [regex])
  ppc,          \* position: "compile", "test", "done", "off"
  \* ---- repository scan (git-operations.js, findActiveGitRepos) ----
  fs,           \* the directory tree under the scan root
  ignoreRegexes,\* the compiled lines of .didignore
  scanWindow,   \* [since, until]: the Date arguments of the scan
  tasks,        \* dirPath -> the call of findActiveGitRepos on it
  visited,      \* the Set shared by all calls of one scan
  visitCount,   \* real directory -> number of calls that went past the visited check
  errlog,       \* the paths named by console.error
  repos,        \* the list returned to main
  spc,          \* position of main: "scanning", "returned", "off"
  \* ---- date window and commit classification of one repository ----
  tz,           \* offset of the process's local time from UTC, in seconds
  now,          \* the instant `new Date()` returns
  opts,         \* [days, since, until] of the merged configuration
  repoLog,      \* what git log prints for the repository
  dateRange,    \* result of calculateDateRange, or the error it throws
  active,       \* result of hasRecentActivity
  clsWindow,    \* sinceTimestamp, untilTimestamp of getUserCommits
  allCommits,   \* allCommits of parseCommitsAndDetectRebases
  userCommits,  \* result of getUserCommits
  apc,          \* position: "range", "activity", "commits", "done", "exit", "off"
  \* ---- the report of main on the repositories the scan returned ----
  run,          \* [projectMode, shortMode, author, git]: flags and git's answers
  lastCommitDates, \* results of getLastCommitDate, one per repository
  allResults,   \* results of getUserCommits, one per repository
  outputData,   \* outputData.repos as handed to the formatter
  rpc,          \* position: "start", "lastcommits", "printed", "threw", "off"
  \* ---- the command line and the did.* configuration (options-parser.js) ----
  argv,         \* [first, second, options]: what commander hands to the action
  didConfig,    \* the did.* values git config prints, as loadGitConfig returns them
  cliOptions,   \* { path, days, ...options }: the argument of main
  config,       \* result of mergeConfig
  mode,         \* outputData.mode
  cpc,          \* position: "action", "main", "merged", "moded", "off"
  \* ---- the default-mode report and its text rendering (format-text.js) ----
  userResults,  \* allResults: what getUserCommits returned, one per repository
  outData,      \* outputData: what main hands to the formatter
  texts,        \* the texts formatAsText has returned, in order
  fpc           \* position: "report", "printed", "off"

patVars == <<pattern, relPath, regex, matched, ppc>>

scanVars == <<fs, ignoreRegexes, scanWindow, tasks, visited, visitCount, errlog, repos, spc>>

repVars == <<run, lastCommitDates, allResults, outputData, rpc>>

actVars == <<tz, now, opts, repoLog, dateRange, active, clsWindow, allCommits, userCommits, apc>>

cliVars == <<argv, didConfig, cliOptions, config, mode, cpc>>

outVars == <<userResults, outData, texts, fpc>>

vars == <<patVars, scanVars, actVars, repVars, cliVars, outVars>>

(***************************************************************************)
(* Bounds                                                                  *)
(***************************************************************************)
\* a line of .didignore has at most this many characters
MaxPatLen == 3
\* a root-relative path has at most this many segments
MaxSegs == 2
\* no directory path handed to findActiveGitRepos is longer than this
MaxDepth == 3
\* at most this many directories of the tree hold a .git directory
MaxRepos == 2
\* git log lists at most this many commits of the author
MaxCommits == 2

(***************************************************************************)
(* Strings                                                                 *)
(***************************************************************************)
RECURSIVE Flatten(_)
Flatten(ss) == IF ss = <<>> THEN <<>> ELSE Head(ss) \o Flatten(Tail(ss))

\* String.prototype.slice(from) with from >= 0
SliceFrom(s, from) == SubSeq(s, from + 1, Len(s))

\* String.prototype.slice(0, -n)
SliceDropLast(s, n) == SubSeq(s, 1, Len(s) - n)

RECURSIVE JoinWith(_, _)
JoinWith(segs, sep) ==
  IF segs = <<>> THEN <<>>
  ELSE IF Len(segs) = 1 THEN Head(segs)
  ELSE Head(segs) \o sep \o JoinWith(Tail(segs), sep)

SeqsUpTo(S, n) == UNION {[1..k -> S] : k \in 1..n}

(***************************************************************************)
(* A regular-expression engine for the expressions patternToRegex can      *)
(* build: literals, escapes, '.', groups, '|', '^', '$', and the           *)
(* quantifiers '*', '+', '?'.  RegExpParse is `new RegExp(src)`: ok is     *)
(* FALSE where the constructor throws a SyntaxError.                       *)
(***************************************************************************)
Quantifiers == {"*", "+", "?"}

ParseFail == [ok |-> FALSE, node |-> <<"seq", <<>>>>, next |-> 0]

RECURSIVE ParseDisjunction(_, _)
RECURSIVE ParseAlternative(_, _, _)
RECURSIVE ParseTerm(_, _)

ParseAtom(r, i) ==
  LET c == r[i] IN
  CASE c = "^" -> [ok |-> TRUE, node |-> <<"bol">>, next |-> i + 1, quant |-> FALSE]
    [] c = "$" -> [ok |-> TRUE, node |-> <<"eol">>, next |-> i + 1, quant |-> FALSE]
    [] c = "." -> [ok |-> TRUE, node |-> <<"any">>, next |-> i + 1, quant |-> TRUE]
    [] c = "\\" ->
         IF i + 1 <= Len(r)
         THEN [ok |-> TRUE, node |-> <<"chr", r[i + 1]>>, next |-> i + 2, quant |-> TRUE]
         ELSE [ok |-> FALSE, node |-> <<"bol">>, next |-> 0, quant |-> FALSE]
    [] c = "(" ->
         LET d == ParseDisjunction(r, i + 1) IN
         IF d.ok /\ d.next <= Len(r) /\ r[d.next] = ")"
         THEN [ok |-> TRUE, node |-> d.node, next |-> d.next + 1, quant |-> TRUE]
         ELSE [ok |-> FALSE, node |-> <<"bol">>, next |-> 0, quant |-> FALSE]
    [] c \in Quantifiers ->   \* "Nothing to repeat"
         [ok |-> FALSE, node |-> <<"bol">>, next |-> 0, quant |-> FALSE]
    [] OTHER -> [ok |-> TRUE, node |-> <<"chr", c>>, next |-> i + 1, quant |-> TRUE]

ParseTerm(r, i) ==
  LET a == ParseAtom(r, i) IN
  IF ~a.ok THEN ParseFail
  ELSE IF a.quant /\ a.next <= Len(r) /\ r[a.next] \in Quantifiers
  THEN LET q == r[a.next]
           tag == CASE q = "*" -> "star" [] q = "+" -> "plus" [] OTHER -> "opt"
           \* a quantifier may carry a lazy '?' suffix
           nx == IF a.next + 1 <= Len(r) /\ r[a.next + 1] = "?"
                 THEN a.next + 2 ELSE a.next + 1
       IN [ok |-> TRUE, node |-> <<tag, a.node>>, next |-> nx]
  ELSE [ok |-> TRUE, node |-> a.node, next |-> a.next]

ParseAlternative(r, i, acc) ==
  IF i > Len(r) \/ r[i] \in {"|", ")"}
  THEN [ok |-> TRUE, node |-> <<"seq", acc>>, next |-> i]
  ELSE LET t == ParseTerm(r, i) IN
       IF ~t.ok THEN ParseFail
       ELSE ParseAlternative(r, t.next, Append(acc, t.node))

ParseDisjunction(r, i) ==
  LET a == ParseAlternative(r, i, <<>>) IN
  IF ~a.ok THEN ParseFail
  ELSE IF a.next <= Len(r) /\ r[a.next] = "|"
  THEN LET d == ParseDisjunction(r, a.next + 1) IN
       IF ~d.ok THEN ParseFail
       ELSE [ok |-> TRUE, node |-> <<"alt", a.node, d.node>>, next |-> d.next]
  ELSE a

RegExpParse(src) ==
  LET d == ParseDisjunction(src, 1) IN
  IF d.ok /\ d.next = Len(src) + 1 THEN d ELSE ParseFail

RECURSIVE Ends(_, _, _)
RECURSIVE EndsSeq(_, _, _)
RECURSIVE EndsStar(_, _, _)

\* the positions of s at which a match of node can end when it starts at a
\* position of P (positions are 0..Len(s))
Ends(node, s, P) ==
  LET tag == node[1] IN
  CASE tag = "chr" -> {p + 1 : p \in {q \in P : q < Len(s) /\ s[q + 1] = node[2]}}
    [] tag = "any" -> {p + 1 : p \in {q \in P : q < Len(s)}}
    [] tag = "bol" -> {p \in P : p = 0}
    [] tag = "eol" -> {p \in P : p = Len(s)}
    [] tag = "seq" -> EndsSeq(node[2], s, P)
    [] tag = "alt" -> Ends(node[2], s, P) \cup Ends(node[3], s, P)
    [] tag = "opt" -> P \cup Ends(node[2], s, P)
    [] tag = "star" -> EndsStar(node[2], s, P)
    [] OTHER -> EndsStar(node[2], s, Ends(node[2], s, P))

EndsSeq(nodes, s, P) ==
  IF nodes = <<>> \/ P = {} THEN P
  ELSE EndsSeq(Tail(nodes), s, Ends(Head(nodes), s, P))

EndsStar(node, s, P) ==
  LET Q == P \cup Ends(node, s, P) IN
  IF Q = P THEN P ELSE EndsStar(node, s, Q)

\* RegExp.prototype.test without flags: a match may start anywhere
RegExpTest(src, s) ==
  LET ast == RegExpParse(src).node IN
  \E i \in 0..Len(s) : Ends(ast, s, {i}) # {}

(***************************************************************************)
(* file-patterns.js                                                        *)
(***************************************************************************)
\* the character class /[.+^${}()|[\]\\]/ of patternToRegex
EscapedChars == {".", "+", "^", "$", "{", "}", "(", ")", "|", "[", "]", "\\"}

\* .replace(/[.+^${}()|[\]\\]/g, '\\$&').replace(/\*/g, '.*').replace(/\?/g, '.')
EscapeChar(c) ==
  IF c \in EscapedChars THEN <<"\\", c>>
  ELSE IF c = "*" THEN <<".", "*">>
  ELSE IF c = "?" THEN <<".">>
  ELSE <<c>>

EscapePattern(p) == Flatten([i \in 1..Len(p) |-> EscapeChar(p[i])])

SubtreeSuffix == <<"(", "/", ".", "*", ")", "?", "$">>

SegmentPrefix == <<"(", "^", "|", "/", ")">>

\* the number of characters patternToRegex cuts off for a trailing '/'
DirSliceLen == 2

\* the number of characters patternToRegex cuts off for a leading '/'
RootSliceLen == 2

patternToRegexSource(p) ==
  LET escaped == EscapePattern(p)
      dirOnly == IF p[Len(p)] = "/"
                 THEN SliceDropLast(escaped, DirSliceLen) \o SubtreeSuffix
                 ELSE escaped \o SubtreeSuffix
  IN IF p[1] = "/"
     THEN <<"^">> \o SliceFrom(dirOnly, RootSliceLen)
     ELSE SegmentPrefix \o dirOnly

\* ok = FALSE is the null of the catch branch (a warning is printed)
patternToRegex(p) ==
  LET src == patternToRegexSource(p) IN
  [ok |-> RegExpParse(src).ok, src |-> src]

\* ignoreRegexes.some(regex => regex.test(path))
shouldIgnorePath_FirstOnly(path, regexes) ==
  regexes # <<>> /\ RegExpTest(regexes[1], path)

shouldIgnorePath(path, regexes) ==
  \E i \in 1..Len(regexes) : RegExpTest(regexes[i], path)

\* patterns.map(patternToRegex).filter(Boolean)
loadIgnorePatterns_StopAtFailure(patterns) ==
  LET compiled == [i \in 1..Len(patterns) |-> patternToRegex(patterns[i])]
      good == {n \in 0..Len(patterns) : \A i \in 1..n : compiled[i].ok}
      upTo == CHOOSE n \in good : \A m \in good : m <= n
  IN [i \in 1..upTo |-> compiled[i].src]

loadIgnorePatterns(patterns) ==
  LET compiled == [i \in 1..Len(patterns) |-> patternToRegex(patterns[i])]
  IN  [i \in 1..Len(SelectSeq(compiled, LAMBDA c : c.ok))
         |-> SelectSeq(compiled, LAMBDA c : c.ok)[i].src]

(***************************************************************************)
(* The pattern matcher applied to one pattern and one path.                *)
(***************************************************************************)
PatternChars == {"a", "b", "/", "*", "?", "."}

NameChars == {"a", "b"}

\* lines of .didignore after parseIgnoreFile: trimmed, non-empty
Patterns == SeqsUpTo(PatternChars, MaxPatLen)

DirNames == SeqsUpTo(NameChars, 2)

RelPaths == {JoinWith(segs, <<"/">>) : segs \in SeqsUpTo(DirNames, MaxSegs)}

NoRegex == [ok |-> FALSE, src |-> <<>>]

PatternOff ==
  /\ pattern = <<>>
  /\ relPath = <<>>
  /\ regex = NoRegex
  /\ matched = FALSE
  /\ ppc = "off"

ScanOff ==
  /\ fs = <<>>
  /\ ignoreRegexes = <<>>
  /\ scanWindow = <<>>
  /\ tasks = <<>>
  /\ visited = {}
  /\ visitCount = <<>>
  /\ errlog = {}
  /\ repos = <<>>
  /\ spc = "off"

ActivityOff ==
  /\ tz = 0
  /\ now = 0
  /\ opts = <<>>
  /\ repoLog = <<>>
  /\ dateRange = <<>>
  /\ active = FALSE
  /\ clsWindow = <<>>
  /\ allCommits = <<>>
  /\ userCommits = <<>>
  /\ apc = "off"

ReportOff ==
  /\ run = <<>>
  /\ lastCommitDates = <<>>
  /\ allResults = <<>>
  /\ outputData = <<>>
  /\ rpc = "off"

CliOff ==
  /\ argv = <<>>
  /\ didConfig = <<>>
  /\ cliOptions = <<>>
  /\ config = <<>>
  /\ mode = ""
  /\ cpc = "off"

RenderOff ==
  /\ userResults = <<>>
  /\ outData = <<>>
  /\ texts = <<>>
  /\ fpc = "off"

InitPattern ==
  /\ ScanOff
  /\ ActivityOff
  /\ ReportOff
  /\ CliOff
  /\ RenderOff
  /\ pattern \in Patterns
  /\ relPath \in RelPaths
  /\ regex = NoRegex
  /\ matched = FALSE
  /\ ppc = "compile"

CompilePattern ==
  /\ ppc = "compile"
  /\ regex' = patternToRegex(pattern)
  /\ ppc' = "test"
  /\ UNCHANGED <<pattern, relPath, matched>>
  /\ UNCHANGED scanVars
  /\ UNCHANGED actVars
  /\ UNCHANGED repVars
  /\ UNCHANGED cliVars
  /\ UNCHANGED outVars

TestPath ==
  /\ ppc = "test"
  /\ matched' = shouldIgnorePath(relPath, loadIgnorePatterns(<<pattern>>))
  /\ ppc' = "done"
  /\ UNCHANGED <<pattern, relPath, regex>>
  /\ UNCHANGED scanVars
  /\ UNCHANGED actVars
  /\ UNCHANGED repVars
  /\ UNCHANGED cliVars
  /\ UNCHANGED outVars

NextPattern == CompilePattern \/ TestPath

SpecPattern == InitPattern /\ [][NextPattern]_vars

(***************************************************************************)
(* Properties of the pattern matcher                                       *)
(***************************************************************************)
\* path.split('/')
RECURSIVE SplitAcc(_, _, _)
SplitAcc(s, cur, acc) ==
  IF s = <<>> THEN Append(acc, cur)
  ELSE IF Head(s) = "/" THEN SplitAcc(Tail(s), <<>>, Append(acc, cur))
  ELSE SplitAcc(Tail(s), Append(cur, Head(s)), acc)

Segments(s) == SplitAcc(s, <<>>, <<>>)

IsLiteral(s) == s # <<>> /\ \A i \in 1..Len(s) : s[i] \in NameChars

StartsWith(s, pre) == Len(pre) <= Len(s) /\ SubSeq(s, 1, Len(pre)) = pre

\* P occurs in s from a segment start to a segment end
OccursAtSegments(s, P) ==
  \E i \in 1..Len(s) :
    /\ i + Len(P) - 1 <= Len(s)
    /\ SubSeq(s, i, i + Len(P) - 1) = P
    /\ (i = 1 \/ s[i - 1] = "/")
    /\ (i + Len(P) - 1 = Len(s) \/ s[i + Len(P)] = "/")

\* C4: the matcher compiled from a line NAME/ (NAME a literal directory
\* name) matches a root-relative path exactly when one of the path's
\* segments is NAME: the directories called NAME at any depth and all that
\* lies beneath them, and no directory of another name.
C4_DirPatternMatchesNamedDirs ==
  (/\ ppc = "done"
   /\ Len(pattern) >= 2
   /\ pattern[Len(pattern)] = "/"
   /\ IsLiteral(SliceDropLast(pattern, 1)))
  => (matched <=>
        \E i \in 1..Len(Segments(relPath)) :
           Segments(relPath)[i] = SliceDropLast(pattern, 1))

\* C5: the matcher of /P (P literal) matches exactly P and P/..., and the
\* matcher of P without the leading '/' matches exactly the paths in which
\* P occurs from a segment start to a segment end.
C5_RootedAndFloatingPatterns ==
  /\ (/\ ppc = "done"
      /\ Len(pattern) >= 2
      /\ pattern[1] = "/"
      /\ IsLiteral(SliceFrom(pattern, 1)))
     => (matched <=>
           \/ relPath = SliceFrom(pattern, 1)
           \/ StartsWith(relPath, SliceFrom(pattern, 1) \o <<"/">>))
  /\ (ppc = "done" /\ IsLiteral(pattern))
     => (matched <=> OccursAtSegments(relPath, pattern))

(***************************************************************************)
(* The directory tree.  A real directory is named by its canonical path,   *)
(* a sequence of entry names; an entry of a directory is a real            *)
(* subdirectory or a symbolic link to a real directory.                    *)
(***************************************************************************)
NameA == <<"a">>

NameB == <<"b">>

NameHidden == <<".", "a">>

NameLink == <<"a", "b">>

Root == <<>>

\* the subdirectories of each real directory, in the order readdir lists them
Subdirs(d) ==
  CASE d = Root -> <<NameHidden, NameA, NameB>>
    [] d = <<NameA>> -> <<NameA, NameB>>
    [] OTHER -> <<>>

Dirs == {Root, <<NameHidden>>, <<NameA>>, <<NameB>>, <<NameA, NameA>>, <<NameA, NameB>>}

\* what `git log -1` finds in a directory holding .git
RepoKinds == {"recent", "stale", "nocommit"}

Faults == {"stat", "readdirEACCES", "readdirEPERM", "readdirEIO"}

NoFault == [at |-> Root, what |-> "none"]

NoLink == [at |-> Root, to |-> Root, on |-> FALSE]

SymLinks ==
  { [at |-> <<NameA>>, to |-> Root, on |-> TRUE],
    [at |-> <<NameB>>, to |-> <<NameA>>, on |-> TRUE],
    [at |-> <<NameA, NameA>>, to |-> <<NameA, NameA>>, on |-> TRUE] }

IgnoreFiles ==
  { << <<"b">> >>,
    << <<"a", "a", "/">>, <<"/">> >>,
    << <<"/", "b", "a">> >>,
    << <<"b">>, <<"*">> >>,
    << <<"/">>, <<"b">> >> }

RepoMaps ==
  {g \in [Dirs -> RepoKinds \cup {"none"}] :
     Cardinality({d \in Dirs : g[d] # "none"}) <= MaxRepos}

\* the repositories of the trees that hold a symbolic link are all active
LinkRepoMaps == {g \in RepoMaps : \A d \in Dirs : g[d] \in {"none", "recent"}}

\* one tree has at most one of: a failing directory, a symbolic link, a
\* .didignore file
Trees ==
  {[git |-> g, fault |-> f, link |-> NoLink, ignore |-> <<>>] :
     g \in RepoMaps,
     f \in {NoFault} \cup {[at |-> d, what |-> w] : d \in Dirs \ {<<NameHidden>>}, w \in Faults}}
  \cup {[git |-> g, fault |-> NoFault, link |-> l, ignore |-> <<>>] :
          g \in LinkRepoMaps, l \in SymLinks}
  \cup {[git |-> g, fault |-> NoFault, link |-> NoLink, ignore |-> i] :
          g \in RepoMaps, i \in IgnoreFiles}

\* the Dirent list of readdir(d, { withFileTypes: true })
Entries(d) ==
  [i \in 1..Len(Subdirs(d)) |->
     [name |-> Subdirs(d)[i], kind |-> "dir", target |-> Append(d, Subdirs(d)[i])]]
  \o (IF fs.link.on /\ fs.link.at = d
      THEN <<[name |-> NameLink, kind |-> "link", target |-> fs.link.to]>>
      ELSE <<>>)

\* the real directory a path names, following symbolic links
RECURSIVE ResolveFrom(_, _)
ResolveFrom(d, names) ==
  IF names = <<>> THEN d
  ELSE LET es == Entries(d)
           i == CHOOSE j \in 1..Len(es) : es[j].name = Head(names)
       IN ResolveFrom(es[i].target, Tail(names))

Resolve(path) == ResolveFrom(Root, path)

(***************************************************************************)
(* git-operations.js                                                       *)
(***************************************************************************)
NullDate == [null |-> TRUE, t |-> 0]

DateOf(t) == [null |-> FALSE, t |-> t]

\* the window of the scans explored: 2025-01-10T00:00Z .. 2025-01-20T00:00Z
ScanSince == 777600

ScanUntil == 1641600

\* getLastCommitDate: null dates when git fails or prints nothing usable
getLastCommitDate(kind) ==
  CASE kind = "recent" -> [authorDate |-> DateOf(86400), commitDate |-> DateOf(1000000)]
    [] kind = "stale" -> [authorDate |-> DateOf(86400), commitDate |-> DateOf(90000)]
    [] OTHER -> [authorDate |-> NullDate, commitDate |-> NullDate]

hasRecentActivity_CommitOnly(lastCommit, sinceDate, untilDate) ==
  /\ ~lastCommit.commitDate.null
  /\ lastCommit.commitDate.t >= sinceDate
  /\ lastCommit.commitDate.t <= untilDate

hasRecentActivity(lastCommit, sinceDate, untilDate) ==
  IF lastCommit.authorDate.null /\ lastCommit.commitDate.null THEN FALSE
  ELSE LET authorInRange == /\ ~lastCommit.authorDate.null
                            /\ lastCommit.authorDate.t >= sinceDate
                            /\ lastCommit.authorDate.t <= untilDate
           commitInRange == /\ ~lastCommit.commitDate.null
                            /\ lastCommit.commitDate.t >= sinceDate
                            /\ lastCommit.commitDate.t <= untilDate
       IN authorInRange \/ commitInRange

\* isGitRepository: stat(join(dirPath, '.git')).isDirectory()
isGitRepository(dirPath) == fs.git[Resolve(dirPath)] # "none"

\* relative(rootPath, dirPath)
relative(dirPath) == JoinWith(dirPath, <<"/">>)

NewTask == [pc |-> "stat", result |-> <<>>, kids |-> <<>>, found |-> FALSE]

Finished(t) == [t EXCEPT !.pc = "done"]

\* visited.add(dirPath)
visitedAdd_Replace(set, dirPath) == {dirPath}

visitedAdd(set, dirPath) == set \cup {dirPath}

\* await stat(dirPath) settles; the visited check and the ignore check follow
\* without another await
StatDone(p) ==
  /\ spc = "scanning"
  /\ tasks[p].pc = "stat"
  /\ LET d == Resolve(p) IN
     IF fs.fault.what = "stat" /\ fs.fault.at = d
     THEN /\ tasks' = [tasks EXCEPT ![p] = Finished(@)]
          /\ UNCHANGED <<visited, visitCount>>
     ELSE IF p \in visited
     THEN /\ tasks' = [tasks EXCEPT ![p] = Finished(@)]
          /\ UNCHANGED <<visited, visitCount>>
     ELSE /\ visited' = visitedAdd(visited, p)
          /\ visitCount' = [visitCount EXCEPT ![d] = @ + 1]
          /\ IF relative(p) # <<>> /\ shouldIgnorePath(relative(p), ignoreRegexes)
             THEN tasks' = [tasks EXCEPT ![p] = Finished(@)]
             ELSE tasks' = [tasks EXCEPT ![p].pc = "isgit"]
  /\ UNCHANGED <<fs, ignoreRegexes, scanWindow, errlog, repos, spc>>
  /\ UNCHANGED patVars
  /\ UNCHANGED actVars
  /\ UNCHANGED repVars
  /\ UNCHANGED cliVars
  /\ UNCHANGED outVars

\* await isGitRepository(dirPath) settles
IsGitDone(p) ==
  /\ spc = "scanning"
  /\ tasks[p].pc = "isgit"
  /\ tasks' = [tasks EXCEPT ![p].pc =
                 IF isGitRepository(p) THEN "activity" ELSE "readdir"]
  /\ UNCHANGED <<fs, ignoreRegexes, scanWindow, visited, visitCount, errlog, repos, spc>>
  /\ UNCHANGED patVars
  /\ UNCHANGED actVars
  /\ UNCHANGED repVars
  /\ UNCHANGED cliVars
  /\ UNCHANGED outVars

\* where a call goes after the repository branch: `return activeRepos`
AfterRepository_Descend == "readdir"

AfterRepository == "done"

\* await hasRecentActivity(dirPath, sinceDate, untilDate) settles
ActivityDone(p) ==
  /\ spc = "scanning"
  /\ tasks[p].pc = "activity"
  /\ LET hasActivity == hasRecentActivity(getLastCommitDate(fs.git[Resolve(p)]),
                                          scanWindow.since, scanWindow.until)
     IN tasks' = [tasks EXCEPT ![p] =
                    [@ EXCEPT !.pc = AfterRepository,
                              !.found = hasActivity,
                              !.result = IF hasActivity THEN Append(@, p) ELSE @]]
  /\ UNCHANGED <<fs, ignoreRegexes, scanWindow, visited, visitCount, errlog, repos, spc>>
  /\ UNCHANGED patVars
  /\ UNCHANGED actVars
  /\ UNCHANGED repVars
  /\ UNCHANGED cliVars
  /\ UNCHANGED outVars

\* entry.name.startsWith('.')
startsWithDot_WholeName(name) == name = <<".">>

startsWithDot(name) == name[1] = "."

\* entry.isDirectory() && !entry.name.startsWith('.'): a Dirent of a symbolic
\* link is not a directory
isScannedEntry_FollowLinks(entry) ==
  entry.kind \in {"dir", "link"} /\ ~startsWithDot(entry.name)

isScannedEntry(entry) == entry.kind = "dir" /\ ~startsWithDot(entry.name)

\* error.code !== 'EACCES' && error.code !== 'EPERM' is false: nothing is logged
isPermissionError_EaccesOnly(what) == what = "readdirEACCES"

isPermissionError(what) == what \in {"readdirEACCES", "readdirEPERM"}

\* await readdir(dirPath) settles; each subdirectory's call is started and
\* runs up to its own await stat
ReaddirDone(p) ==
  /\ spc = "scanning"
  /\ tasks[p].pc = "readdir"
  /\ LET d == Resolve(p)
         failed == fs.fault.at = d /\ fs.fault.what \in Faults \ {"stat"}
         scanned == SelectSeq(Entries(d), isScannedEntry)
         kids == IF Len(p) < MaxDepth
                 THEN [i \in 1..Len(scanned) |-> Append(p, scanned[i].name)]
                 ELSE <<>>
         kidSet == {kids[i] : i \in 1..Len(kids)}
     IN IF failed
        THEN /\ tasks' = [tasks EXCEPT ![p] = Finished(@)]
             /\ errlog' = IF isPermissionError(fs.fault.what) THEN errlog
                          ELSE errlog \cup {p}
        ELSE /\ tasks' = [q \in DOMAIN tasks \cup kidSet |->
                            IF q = p THEN [tasks[p] EXCEPT !.pc = "join", !.kids = kids]
                            ELSE IF q \in kidSet THEN NewTask
                            ELSE tasks[q]]
             /\ UNCHANGED errlog
  /\ UNCHANGED <<fs, ignoreRegexes, scanWindow, visited, visitCount, repos, spc>>
  /\ UNCHANGED patVars
  /\ UNCHANGED actVars
  /\ UNCHANGED repVars
  /\ UNCHANGED cliVars
  /\ UNCHANGED outVars

\* subResults.forEach(subRepos => activeRepos.push(...subRepos))
mergeSubResults_LastOnly(activeRepos, subResults) ==
  IF subResults = <<>> THEN activeRepos ELSE subResults[Len(subResults)]

\* the sub-results put in front of the list, last branch first
mergeSubResults_Unshift(activeRepos, subResults) ==
  Flatten([i \in 1..Len(subResults) |-> subResults[Len(subResults) + 1 - i]])
    \o activeRepos

mergeSubResults(activeRepos, subResults) == activeRepos \o Flatten(subResults)

\* await Promise.all(subdirPromises) settles
JoinDone(p) ==
  /\ spc = "scanning"
  /\ tasks[p].pc = "join"
  /\ \A i \in 1..Len(tasks[p].kids) : tasks[tasks[p].kids[i]].pc = "done"
  /\ LET subResults == [i \in 1..Len(tasks[p].kids) |-> tasks[tasks[p].kids[i]].result]
     IN tasks' = [tasks EXCEPT ![p] =
                    [@ EXCEPT !.pc = "done", !.result = mergeSubResults(@, subResults)]]
  /\ UNCHANGED <<fs, ignoreRegexes, scanWindow, visited, visitCount, errlog, repos, spc>>
  /\ UNCHANGED patVars
  /\ UNCHANGED actVars
  /\ UNCHANGED repVars
  /\ UNCHANGED cliVars
  /\ UNCHANGED outVars

\* main: const repos = await findActiveGitRepos(startPath, ...)
ScanReturn ==
  /\ spc = "scanning"
  /\ tasks[Root].pc = "done"
  /\ repos' = tasks[Root].result
  /\ spc' = "returned"
  /\ UNCHANGED <<fs, ignoreRegexes, scanWindow, tasks, visited, visitCount, errlog>>
  /\ UNCHANGED patVars
  /\ UNCHANGED actVars
  /\ UNCHANGED repVars
  /\ UNCHANGED cliVars
  /\ UNCHANGED outVars

\* main has resolved the window and compiled .didignore, and calls
\* findActiveGitRepos(startPath, since, until, new Set(), null, ignoreRegexes)
InitScan ==
  /\ PatternOff
  /\ ActivityOff
  /\ ReportOff
  /\ CliOff
  /\ RenderOff
  /\ fs \in Trees
  /\ ignoreRegexes = loadIgnorePatterns(fs.ignore)
  /\ scanWindow = [since |-> ScanSince, until |-> ScanUntil]
  /\ tasks = [p \in {Root} |-> NewTask]
  /\ visited = {}
  /\ visitCount = [d \in Dirs |-> 0]
  /\ errlog = {}
  /\ repos = <<>>
  /\ spc = "scanning"

NextScan ==
  \/ \E p \in DOMAIN tasks : StatDone(p)
  \/ \E p \in DOMAIN tasks : IsGitDone(p)
  \/ \E p \in DOMAIN tasks : ActivityDone(p)
  \/ \E p \in DOMAIN tasks : ReaddirDone(p)
  \/ \E p \in DOMAIN tasks : JoinDone(p)
  \/ ScanReturn

SpecScan == InitScan /\ [][NextScan]_vars

\* the scans of the trees that hold a symbolic link; every pending
\* filesystem or git call settles
InitScanLinks == InitScan /\ fs.link.on

SpecScanLinks == InitScanLinks /\ [][NextScan]_vars /\ WF_vars(NextScan)

\* the scans of the trees with a failing directory and active repositories;
\* every pending filesystem or git call settles
InitScanFaults == InitScan /\ fs.fault.what # "none" /\ fs.git \in LinkRepoMaps

SpecScanFaults == InitScanFaults /\ [][NextScan]_vars /\ WF_vars(NextScan)

(***************************************************************************)
(* Properties of the scan                                                  *)
(***************************************************************************)
IsProperPrefix(p, q) == Len(p) < Len(q) /\ SubSeq(q, 1, Len(p)) = p

Occurrences(x, xs) == Cardinality({i \in 1..Len(xs) : xs[i] = x})

\* C1: when findActiveGitRepos has returned, no path of the returned list is
\* a proper descendant of another path of the list.
C1_NoResultBelowAnother ==
  spc = "returned" =>
    \A i, j \in 1..Len(repos) : ~IsProperPrefix(repos[i], repos[j])

\* an active repository was returned although another active repository
\* lies beneath it
C1_Witness ==
  /\ spc = "returned"
  /\ \E i \in 1..Len(repos) :
       /\ repos[i] = <<NameA>>
       /\ fs.git[<<NameA, NameA>>] = "recent"

\* C2: whatever the order in which the sibling scans settle, the returned
\* list holds each directory on which a call found activity exactly once and
\* holds nothing else.
C2_EveryActiveRepoExactlyOnce ==
  spc = "returned" =>
    /\ \A p \in DOMAIN tasks : Occurrences(p, repos) = IF tasks[p].found THEN 1 ELSE 0
    /\ \A i \in 1..Len(repos) : repos[i] \in DOMAIN tasks

\* two active repositories of different branches, one of them a level
\* deeper than the other, were both returned
C2_Witness ==
  /\ spc = "returned"
  /\ Len(repos) = 2
  /\ {<<NameB>>, <<NameA, NameA>>} \subseteq DOMAIN tasks
  /\ tasks[<<NameB>>].found
  /\ tasks[<<NameA, NameA>>].found

\* C3: in a tree with symbolic links (cycles included) the scan returns, and
\* no real directory is processed by more than one call.
C3_TerminatesVisitingOnce ==
  /\ <>(spc = "returned")
  /\ [](spc # "off" => \A d \in Dirs : visitCount[d] <= 1)

\* the scan returned after enumerating a directory that holds a symbolic
\* link to one of its own ancestors
C3_Witness ==
  /\ spc = "returned"
  /\ fs.link.on
  /\ fs.link.at = <<NameA>>
  /\ fs.link.to = Root
  /\ <<NameA>> \in DOMAIN tasks
  /\ tasks[<<NameA>>].kids # <<>>

(***************************************************************************)
(* date-utils: calendar dates of the year 2025.  A date string is          *)
(* [given, wf, m, d]: given is FALSE for an option left out, wf is FALSE   *)
(* for a string /^\d{4}-\d{2}-\d{2}$/ rejects.                             *)
(***************************************************************************)
\* MS_PER_DAY, in seconds
SecondsPerDay == 86400

DaysInMonth == <<31, 28, 31, 30, 31, 30, 31, 31, 30, 31, 30, 31>>

RECURSIVE DaysBefore(_)
DaysBefore(m) == IF m = 1 THEN 0 ELSE DaysBefore(m - 1) + DaysInMonth[m - 1]

\* the day a date names; Date carries a day past the end of its month over
\* into the next month
DayIndex(label) == DaysBefore(label.m) + label.d - 1

LabelOfDay(n) ==
  LET m == CHOOSE k \in 1..12 : DaysBefore(k) <= n /\ n < DaysBefore(k) + DaysInMonth[k]
  IN [m |-> m, d |-> n - DaysBefore(m) + 1]

\* new Date('YYYY-MM-DD'): a date-only string is midnight UTC
DateFromLabel(label) == DayIndex(label) * SecondsPerDay

\* new Date('YYYY-MM-DD' + 'T23:59:59'): a date-time string without offset
\* is local time
EndOfLocalDay(label) ==
  DayIndex(label) * SecondsPerDay + (23 * 3600 + 59 * 60 + 59) - tz

\* formatDate: getFullYear / getMonth / getDate read local time
formatDate(date) == LabelOfDay((date + tz) \div SecondsPerDay)

NoDate == [ok |-> FALSE, t |-> 0]

parseDate(dateString) ==
  IF ~dateString.wf THEN NoDate
  ELSE LET date == DateFromLabel(dateString) IN
       IF formatDate(date) # [m |-> dateString.m, d |-> dateString.d]
       THEN NoDate
       ELSE [ok |-> TRUE, t |-> date]

RangeError(what) ==
  [error |-> what, since |-> 0, until |-> 0,
   sinceStr |-> [m |-> 1, d |-> 1], untilStr |-> [m |-> 1, d |-> 1]]

\* sinceDate > untilDate, on the instants of the two dates
IsAfter_OrEqual(sinceDate, untilDate) == sinceDate >= untilDate

IsAfter(sinceDate, untilDate) == sinceDate > untilDate

\* if (since), if (until): undefined and the empty string are falsy
Truthy(dateString) == dateString.given /\ ~dateString.empty

calculateDateRange(days, since, until) ==
  LET sinceParsed == IF Truthy(since) THEN parseDate(since) ELSE NoDate
      untilParsed == IF Truthy(until) THEN parseDate(until) ELSE [ok |-> TRUE, t |-> now]
      untilDate == untilParsed.t
      sinceDate == IF sinceParsed.ok THEN sinceParsed.t
                   ELSE untilDate - days * SecondsPerDay
  IN IF Truthy(since) /\ ~sinceParsed.ok THEN RangeError("since")
     ELSE IF ~untilParsed.ok THEN RangeError("until")
     ELSE IF IsAfter(sinceDate, untilDate) THEN RangeError("range")
     ELSE [error |-> "none", since |-> sinceDate, until |-> untilDate,
           sinceStr |-> formatDate(sinceDate), untilStr |-> formatDate(untilDate)]

(***************************************************************************)
(* rebase-detection.js.  A line of git log is the sequence of its          *)
(* '|'-separated parts; a part is [k, v, hm]: a hash, a piece of the       *)
(* subject ("text"), a date %as / %cs (v is the day), a timestamp %at /    *)
(* %ct, or an ISO date %aI / %cI (hm is the minute of the day).            *)
(***************************************************************************)
Part(k, v, hm) == [k |-> k, v |-> v, hm |-> hm]

\* pieces of a subject: "0", a word, a word holding a 'T'
TextZero == 0

TextWord == 1

TextWithT == 2

NaN == [nan |-> TRUE, v |-> 0]

Num(v) == [nan |-> FALSE, v |-> v]

\* instants count seconds from 2025-01-01T00:00:00Z, 20089 days after the
\* epoch of git's timestamps
SecondsSince1970 == 20089 * SecondsPerDay

\* parseInt(part, 10): the leading digits of the part, read as a timestamp
parseInt(part) ==
  CASE part.k = "ts" -> Num(part.v)
    [] part.k \in {"date", "iso"} -> Num(2025 - SecondsSince1970)
    [] part.k = "text" /\ part.v = TextZero -> Num(0 - SecondsSince1970)
    [] OTHER -> NaN

\* part.split('T')[1] is undefined, so .substring throws a TypeError
SplitTThrows(part) == ~(part.k = "iso" \/ (part.k = "text" /\ part.v = TextWithT))

\* part.split('T')[1].substring(0, 5)
TimeOfDay(part) == IF part.k = "iso" THEN part.hm ELSE 0 - 1

\* the default threshold of isRebasedCommit
RebaseThreshold == 86400

Abs(x) == IF x < 0 THEN 0 - x ELSE x

isRebasedCommit(authorTimestamp, commitTimestamp) ==
  /\ ~authorTimestamp.nan
  /\ ~commitTimestamp.nan
  /\ Abs(commitTimestamp.v - authorTimestamp.v) > RebaseThreshold

InWindow(timestamp, sinceTimestamp, untilTimestamp) ==
  /\ ~timestamp.nan
  /\ timestamp.v >= sinceTimestamp
  /\ timestamp.v <= untilTimestamp

\* the callback of .map in parseCommitsAndDetectRebases
ParseLine(parts, sinceTimestamp, untilTimestamp) ==
  LET timestamp == parseInt(parts[4])
      commitTimestamp == parseInt(parts[Len(parts) - 1])
  IN [hash |-> parts[1].v,
      message |-> SubSeq(parts, 2, Len(parts) - 6),
      date |-> parts[3],
      time |-> TimeOfDay(parts[5]),
      timestamp |-> timestamp,
      commitDate |-> parts[Len(parts) - 2],
      commitTimestamp |-> commitTimestamp,
      commitIsoDate |-> parts[Len(parts)],
      isRebase |-> isRebasedCommit(timestamp, commitTimestamp),
      authorInRange |-> InWindow(timestamp, sinceTimestamp, untilTimestamp),
      commitInRange |-> InWindow(commitTimestamp, sinceTimestamp, untilTimestamp)]

\* filterCommitsByDateRange(allCommits, ..., 'authorInRange')
filterCommitsByDateRange(commits) == SelectSeq(commits, LAMBDA c : c.authorInRange)

\* the filter of rebasedCommits
isRebasedIntoWindow_AuthorAnywhere(commit) == commit.isRebase /\ commit.commitInRange

isRebasedIntoWindow(commit) ==
  commit.isRebase /\ commit.commitInRange /\ ~commit.authorInRange

\* the keys of an object, in the order they were first set
RECURSIVE KeysInOrder(_, _)
KeysInOrder(xs, acc) ==
  IF xs = <<>> THEN acc
  ELSE IF \E i \in 1..Len(acc) : acc[i] = Head(xs)
  THEN KeysInOrder(Tail(xs), acc)
  ELSE KeysInOrder(Tail(xs), Append(acc, Head(xs)))

groupCommitsByDate(commits) ==
  LET keys == KeysInOrder([i \in 1..Len(commits) |-> commits[i].commitDate], <<>>)
  IN [i \in 1..Len(keys) |->
        [key |-> keys[i],
         commits |-> SelectSeq(commits, LAMBDA c : c.commitDate = keys[i])]]

\* the rank of a part in the order of Array.prototype.sort on strings: "0"
\* sorts before the dates "2025-..", and words sort after them
SortRank(part) ==
  CASE part.k = "date" -> part.v
    [] part.k = "text" /\ part.v = TextZero -> 0 - 1
    [] OTHER -> 1000 + part.v

FirstSorted(parts) ==
  parts[CHOOSE i \in 1..Len(parts) :
          \A j \in 1..Len(parts) : SortRank(parts[i]) <= SortRank(parts[j])]

LastSorted(parts) ==
  parts[CHOOSE i \in 1..Len(parts) :
          \A j \in 1..Len(parts) : SortRank(parts[i]) >= SortRank(parts[j])]

createRebaseSummaries(rebasesByDate) ==
  [i \in 1..Len(rebasesByDate) |->
     LET commits == rebasesByDate[i].commits
         authorDates == [j \in 1..Len(commits) |-> commits[j].date]
     IN [commitDate |-> rebasesByDate[i].key,
         commitTime |-> commits[1].commitIsoDate.hm,
         count |-> Len(commits),
         firstAuthorDate |-> FirstSorted(authorDates),
         lastAuthorDate |-> LastSorted(authorDates),
         commits |-> [j \in 1..Len(commits) |->
                        [hash |-> commits[j].hash, date |-> commits[j].date,
                         message |-> commits[j].message]]]]

NoCommits == [threw |-> FALSE, all |-> <<>>, commits |-> <<>>, rebaseSummaries |-> <<>>]

\* threw: a TypeError leaves the function; all is its local allCommits
parseCommitsAndDetectRebases(lines, sinceTimestamp, untilTimestamp) ==
  IF lines = <<>> THEN NoCommits
  ELSE IF \E i \in 1..Len(lines) : SplitTThrows(lines[i][5])
  THEN [NoCommits EXCEPT !.threw = TRUE]
  ELSE LET all == [i \in 1..Len(lines) |->
                     ParseLine(lines[i], sinceTimestamp, untilTimestamp)]
           rebasedCommits == SelectSeq(all, isRebasedIntoWindow)
       IN [threw |-> FALSE,
           all |-> all,
           commits |-> filterCommitsByDateRange(all),
           rebaseSummaries |-> createRebaseSummaries(groupCommitsByDate(rebasedCommits))]

(***************************************************************************)
(* One run of main over a scan root that is itself a repository: the       *)
(* window is resolved, the scan asks hasRecentActivity, getUserCommits     *)
(* classifies the commits.                                                 *)
(***************************************************************************)
TzOffsets == {0 - 5 * 3600, 0, 2 * 3600}

NotGiven == [given |-> FALSE, empty |-> FALSE, wf |-> TRUE, m |-> 1, d |-> 1]

DateString(m, d) == [given |-> TRUE, empty |-> FALSE, wf |-> TRUE, m |-> m, d |-> d]

Malformed == [given |-> TRUE, empty |-> FALSE, wf |-> FALSE, m |-> 1, d |-> 1]

\* --since ""
EmptyString == [given |-> TRUE, empty |-> TRUE, wf |-> FALSE, m |-> 1, d |-> 1]

SinceOptions == {NotGiven, DateString(1, 10), DateString(2, 30), Malformed, EmptyString}

UntilOptions ==
  {NotGiven, DateString(1, 20), DateString(1, 10), DateString(1, 9), DateString(2, 30),
   Malformed, EmptyString}

\* the default of days in mergeConfig
DefaultDays == 7

\* an instant of January 2025
Jan(day, hour, minute) == (day - 1) * SecondsPerDay + hour * 3600 + minute * 60

\* the authored and recorded instants of the commits explored, latest
\* recorded first, as git log lists them
CommitTimes ==
  << <<Jan(20, 22, 30), Jan(20, 22, 30)>>,
     <<Jan(20, 10, 0), Jan(20, 10, 0)>>,
     <<Jan(10, 0, 0), Jan(20, 0, 0)>>,
     <<Jan(15, 12, 0), Jan(16, 12, 0) + 1>>,
     <<Jan(15, 12, 0), Jan(16, 12, 0)>>,
     <<Jan(2, 12, 0), Jan(16, 12, 0)>>,
     <<Jan(3, 12, 0), Jan(15, 12, 0)>>,
     <<Jan(2, 12, 0), Jan(15, 12, 0)>>,
     <<Jan(15, 12, 0), Jan(15, 12, 0)>>,
     <<Jan(9, 23, 0), Jan(9, 23, 0)>>,
     <<Jan(2, 12, 0), Jan(2, 12, 0)>> >>

\* subjects: without '|', with one '|', with three '|'
Subjects == << <<TextWord>>, <<TextWord, TextWord>>, <<TextWord, TextWord, TextZero, TextWithT>> >>

\* [times, subject]: every pair of instants with a plain subject, and the
\* subjects holding '|' on two of them
CommitKinds ==
  [i \in 1..Len(CommitTimes) |-> [times |-> i, subject |-> 1]]
  \o << [times |-> 7, subject |-> 3], [times |-> 9, subject |-> 2],
        [times |-> 9, subject |-> 3] >>

\* the order of git log: latest recorded first
KindOrder(k) == CommitKinds[k].times * 10 + CommitKinds[k].subject

Histories ==
  UNION {{h \in [1..n -> 1..Len(CommitKinds)] :
            \A i, j \in 1..n : i < j => KindOrder(h[i]) <= KindOrder(h[j])} :
         n \in 0..MaxCommits}

LocalDay(t) == (t + tz) \div SecondsPerDay

LocalMinute(t) == ((t + tz) % SecondsPerDay) \div 60

\* one line of --format=%h|%s|%as|%at|%aI|%cs|%ct|%cI, split at '|'
LogLine(hash, kind) ==
  LET at == CommitTimes[kind.times][1]
      ct == CommitTimes[kind.times][2]
      subject == Subjects[kind.subject]
  IN <<Part("hash", hash, 0)>>
     \o [i \in 1..Len(subject) |-> Part("text", subject[i], 0)]
     \o <<Part("date", LocalDay(at), 0), Part("ts", at, 0),
          Part("iso", LocalDay(at), LocalMinute(at)),
          Part("date", LocalDay(ct), 0), Part("ts", ct, 0),
          Part("iso", LocalDay(ct), LocalMinute(ct))>>

\* ok = FALSE: git exits non-zero
GitLog(h) == [ok |-> TRUE, lines |-> [i \in 1..Len(h) |-> LogLine(i, CommitKinds[h[i]])]]

GitFailure == [ok |-> FALSE, lines |-> <<>>]

\* getLastCommitDate on `git log -1 --format=%at|%ct`
LastCommitOf(log) ==
  IF ~log.ok \/ log.lines = <<>>
  THEN [authorDate |-> NullDate, commitDate |-> NullDate]
  ELSE [authorDate |-> DateOf(log.lines[1][Len(log.lines[1]) - 4].v),
        commitDate |-> DateOf(log.lines[1][Len(log.lines[1]) - 1].v)]

InitActivity ==
  /\ PatternOff
  /\ ScanOff
  /\ ReportOff
  /\ CliOff
  /\ RenderOff
  /\ tz \in TzOffsets
  /\ now = Jan(21, 12, 0)
  /\ opts \in [days : {DefaultDays}, since : SinceOptions, until : UntilOptions]
  /\ repoLog \in {GitFailure} \cup {GitLog(h) : h \in Histories}
  /\ dateRange = RangeError("unset")
  /\ active = FALSE
  /\ clsWindow = [since |-> 0, until |-> 0]
  /\ allCommits = <<>>
  /\ userCommits = [commits |-> <<>>, rebaseSummaries |-> <<>>]
  /\ apc = "range"

\* where main goes from the try / catch around calculateDateRange: on to the
\* scan, or console.error and process.exit(1)
AfterResolve_ScanAnyway(error) == "activity"

AfterResolve(error) == IF error = "none" THEN "activity" ELSE "exit"

\* main: dateRange = calculateDateRange(days, since, until), exit(1) on error
ResolveWindow ==
  /\ apc = "range"
  /\ dateRange' = calculateDateRange(opts.days, opts.since, opts.until)
  /\ apc' = AfterResolve(dateRange'.error)
  /\ UNCHANGED <<tz, now, opts, repoLog, active, clsWindow, allCommits, userCommits>>
  /\ UNCHANGED patVars
  /\ UNCHANGED scanVars
  /\ UNCHANGED repVars
  /\ UNCHANGED cliVars
  /\ UNCHANGED outVars

\* findActiveGitRepos on the repository: hasRecentActivity(dirPath, since, until)
CheckActivity ==
  /\ apc = "activity"
  /\ active' = hasRecentActivity(LastCommitOf(repoLog), dateRange.since, dateRange.until)
  /\ apc' = "commits"
  /\ UNCHANGED <<tz, now, opts, repoLog, dateRange, clsWindow, allCommits, userCommits>>
  /\ UNCHANGED patVars
  /\ UNCHANGED scanVars
  /\ UNCHANGED repVars
  /\ UNCHANGED cliVars
  /\ UNCHANGED outVars

\* getUserCommits(repo, author, dateRange.sinceStr, dateRange.untilStr)
GetUserCommits ==
  /\ apc = "commits"
  /\ LET sinceTimestamp == DateFromLabel(dateRange.sinceStr)
         untilTimestamp == EndOfLocalDay(dateRange.untilStr)
         parsed == parseCommitsAndDetectRebases(repoLog.lines, sinceTimestamp, untilTimestamp)
     IN IF ~repoLog.ok
        THEN /\ UNCHANGED <<clsWindow, allCommits>>
             /\ userCommits' = [commits |-> <<>>, rebaseSummaries |-> <<>>]
        ELSE /\ clsWindow' = [since |-> sinceTimestamp, until |-> untilTimestamp]
             /\ allCommits' = parsed.all
             /\ userCommits' = [commits |-> parsed.commits,
                                rebaseSummaries |-> parsed.rebaseSummaries]
  /\ apc' = "done"
  /\ UNCHANGED <<tz, now, opts, repoLog, dateRange, active>>
  /\ UNCHANGED patVars
  /\ UNCHANGED scanVars
  /\ UNCHANGED repVars
  /\ UNCHANGED cliVars
  /\ UNCHANGED outVars

NextActivity == ResolveWindow \/ CheckActivity \/ GetUserCommits

SpecActivity == InitActivity /\ [][NextActivity]_vars

(***************************************************************************)
(* Properties of the classification.  What git recorded for line i is read *)
(* from the end of the line, where no subject can shift it.                *)
(***************************************************************************)
AuthoredAt(line) == line[Len(line) - 4].v

RecordedAt(line) == line[Len(line) - 1].v

AuthoredDay(line) == line[Len(line) - 5].v

RecordedDay(line) == line[Len(line) - 2].v

Hashes == 1..Len(repoLog.lines)

\* the places of commit h in the individual commits, and in the summaries
InCommits(h) ==
  {j \in 1..Len(userCommits.commits) : userCommits.commits[j].hash = h}

InSummaries(h) ==
  {kj \in UNION {{<<k, j>> : j \in 1..Len(userCommits.rebaseSummaries[k].commits)} :
                 k \in 1..Len(userCommits.rebaseSummaries)} :
     userCommits.rebaseSummaries[kj[1]].commits[kj[2]].hash = h}

Classified == apc = "done" /\ repoLog.ok /\ Len(allCommits) = Len(repoLog.lines)

\* C6: every commit of the log is in exactly one category: reported on
\* its own (exactly when authored inside the window), folded into exactly one
\* rebase summary, or left out; never both reported and folded, and nothing
\* is reported or folded that the log did not list.
C6_EachCommitInOneCategory ==
  apc = "done" =>
    /\ \A h \in Hashes : Cardinality(InCommits(h)) + Cardinality(InSummaries(h)) <= 1
    /\ \A j \in 1..Len(userCommits.commits) : userCommits.commits[j].hash \in Hashes
    /\ \A k \in 1..Len(userCommits.rebaseSummaries) :
         \A j \in 1..Len(userCommits.rebaseSummaries[k].commits) :
           userCommits.rebaseSummaries[k].commits[j].hash \in Hashes
    /\ Classified =>
         \A h \in Hashes : (InCommits(h) # {}) <=> allCommits[h].authorInRange

C6_Witness ==
  /\ Classified
  /\ \E g, h \in Hashes :
       /\ InCommits(g) # {} /\ allCommits[g].isRebase
       /\ InSummaries(h) # {}

\* the commits rebased into the window, by what git recorded
RebasedInto(since, until) ==
  {h \in Hashes :
     LET at == AuthoredAt(repoLog.lines[h])
         ct == RecordedAt(repoLog.lines[h])
     IN /\ Abs(ct - at) > RebaseThreshold
        /\ since <= ct /\ ct <= until
        /\ ~(since <= at /\ at <= until)}

SetMin(S) == CHOOSE x \in S : \A y \in S : x <= y

SetMax(S) == CHOOSE x \in S : \A y \in S : x >= y

\* C7: there is exactly one summary for each recorded date among the
\* commits rebased into the window; its count is the number of those commits
\* recorded on that date, and its first and last author dates are the
\* earliest and latest of their authored dates.
C7_OneSummaryPerRecordedDate ==
  Classified =>
    LET rebased == RebasedInto(clsWindow.since, clsWindow.until)
        days == {RecordedDay(repoLog.lines[h]) : h \in rebased}
        summaries == userCommits.rebaseSummaries
    IN /\ Len(summaries) = Cardinality(days)
       /\ \A day \in days :
            LET of == {h \in rebased : RecordedDay(repoLog.lines[h]) = day}
                authored == {AuthoredDay(repoLog.lines[h]) : h \in of}
            IN \E k \in 1..Len(summaries) :
                 /\ summaries[k].commitDate = Part("date", day, 0)
                 /\ summaries[k].count = Cardinality(of)
                 /\ summaries[k].firstAuthorDate = Part("date", SetMin(authored), 0)
                 /\ summaries[k].lastAuthorDate = Part("date", SetMax(authored), 0)
                 /\ SetMin(authored) <= SetMax(authored)

\* C8: a commit authored and recorded on the same calendar date, a date
\* from the since label to the until label, is reported exactly once on its
\* own, not as rebased, and is in no summary; and no commit whose authored
\* and recorded instants are at most 86400 s apart is flagged as rebased.
C8_SameDayCommitReportedOnce ==
  apc = "done" /\ repoLog.ok =>
    /\ \A h \in Hashes :
         LET line == repoLog.lines[h] IN
         (/\ AuthoredDay(line) = RecordedDay(line)
          /\ DayIndex(dateRange.sinceStr) <= AuthoredDay(line)
          /\ AuthoredDay(line) <= DayIndex(dateRange.untilStr))
         => /\ Cardinality(InCommits(h)) = 1
            /\ InSummaries(h) = {}
            /\ \A j \in InCommits(h) : ~allCommits[h].isRebase
    /\ \A h \in 1..Len(allCommits) :
         Abs(RecordedAt(repoLog.lines[h]) - AuthoredAt(repoLog.lines[h])) <= SecondsPerDay
         => ~allCommits[h].isRebase

\* C9: when until is given as a date, a repository whose last commit was
\* made during that day is active for the scan, and a commit made during that
\* day is in range for the classification.
C9_UntilDayIsIncluded ==
  /\ (/\ apc \in {"commits", "done"}
      /\ opts.until.given
      /\ repoLog.ok /\ repoLog.lines # <<>>
      /\ LocalDay(RecordedAt(repoLog.lines[1])) = DayIndex(opts.until))
     => active
  /\ (Classified /\ opts.until.given) =>
       \A h \in Hashes :
         LocalDay(RecordedAt(repoLog.lines[h])) = DayIndex(opts.until)
         => allCommits[h].commitInRange

\* C10: the classification uses the since and until instants of the
\* window calculateDateRange returned, the ones hasRecentActivity is given: a
\* commit is authorInRange (commitInRange) exactly when its authored
\* (recorded) instant lies from dateRange.since to dateRange.until.
C10_OneWindowForScanAndClassification ==
  Classified =>
    /\ allCommits # <<>> =>
         clsWindow = [since |-> dateRange.since, until |-> dateRange.until]
    /\ \A h \in Hashes :
         LET at == AuthoredAt(repoLog.lines[h])
             ct == RecordedAt(repoLog.lines[h])
         IN /\ allCommits[h].authorInRange
               <=> (dateRange.since <= at /\ at <= dateRange.until)
            /\ allCommits[h].commitInRange
               <=> (dateRange.since <= ct /\ ct <= dateRange.until)

\* a date of the calendar, written YYYY-MM-DD
IsCalendarDate(dateString) ==
  /\ dateString.given
  /\ dateString.wf
  /\ dateString.d >= 1
  /\ dateString.d <= DaysInMonth[dateString.m]

\* C11: whenever since or until is supplied and is not a calendar date
\* written YYYY-MM-DD (day 30 of February included), calculateDateRange fails
\* with the invalid-format error of that option; no window is returned for it.
C11_InvalidDatesRejected ==
  apc # "range" =>
    /\ (opts.since.given /\ ~IsCalendarDate(opts.since)) => dateRange.error = "since"
    /\ (opts.until.given /\ ~IsCalendarDate(opts.until))
       => dateRange.error \in {"since", "until"}

\* both options are calendar dates and both were parsed
BothResolved ==
  /\ apc # "range"
  /\ IsCalendarDate(opts.since)
  /\ IsCalendarDate(opts.until)
  /\ dateRange.error \notin {"since", "until"}

SubjectOf(line) == SubSeq(line, 2, Len(line) - 6)

\* C13: for every line whose subject holds '|', a record is produced whose
\* message is the subject and whose hash, author date, author timestamp,
\* author time, commit date and commit timestamp are the fields git wrote at
\* the head and the tail of the line.
C13_SubjectWithPipesIsReassembled ==
  (apc = "done" /\ repoLog.ok) =>
    \A h \in Hashes :
      LET line == repoLog.lines[h] IN
      Len(SubjectOf(line)) > 1 =>
        /\ h <= Len(allCommits)
        /\ allCommits[h].hash = h
        /\ allCommits[h].message = SubjectOf(line)
        /\ allCommits[h].date = Part("date", AuthoredDay(line), 0)
        /\ allCommits[h].timestamp = Num(AuthoredAt(line))
        /\ allCommits[h].time = line[Len(line) - 3].hm
        /\ allCommits[h].commitDate = Part("date", RecordedDay(line), 0)
        /\ allCommits[h].commitTimestamp = Num(RecordedAt(line))

\* C14: the repository is active exactly when its last commit exists and
\* was authored or recorded from since to until, both bounds included; a
\* failed query or a repository without commits is never active.
C14_ActiveIffLastCommitInWindow ==
  apc \in {"commits", "done"} =>
    (active <=>
       /\ repoLog.ok
       /\ repoLog.lines # <<>>
       /\ LET at == AuthoredAt(repoLog.lines[1])
              ct == RecordedAt(repoLog.lines[1])
          IN \/ (dateRange.since <= at /\ at <= dateRange.until)
             \/ (dateRange.since <= ct /\ ct <= dateRange.until))

C14_Witness ==
  /\ apc = "commits"
  /\ active
  /\ repoLog.lines # <<>>
  /\ AuthoredAt(repoLog.lines[1]) = dateRange.since
  /\ RecordedAt(repoLog.lines[1]) > dateRange.until

(***************************************************************************)
(* Properties of the scan: pruning                                         *)
(***************************************************************************)
\* the root-relative path of p matches one of the compiled patterns
MatchesIgnore(p) ==
  \E i \in 1..Len(ignoreRegexes) : RegExpTest(ignoreRegexes[i], relative(p))

\* q is in the list some call holds, or in the list returned to main
Returned(q) ==
  \/ \E t \in DOMAIN tasks : Occurrences(q, tasks[t].result) > 0
  \/ Occurrences(q, repos) > 0

\* no call was made on q: neither stat nor any git query
Untouched(q) ==
  /\ q \notin DOMAIN tasks
  /\ q \notin visited
  /\ q \in Dirs => visitCount[q] = 0

\* p and all beneath it are not returned, nothing beneath p is touched, and
\* p itself is neither queried nor enumerated
Pruned(p) ==
  /\ \A q \in Dirs \cup DOMAIN tasks :
       /\ (q = p \/ IsProperPrefix(p, q)) => ~Returned(q)
       /\ IsProperPrefix(p, q) => Untouched(q)
  /\ p \in DOMAIN tasks => tasks[p].pc \in {"stat", "done"}

\* C15 as stated, the scan root included: every directory whose
\* root-relative path matches a compiled ignore pattern is pruned with all
\* beneath it.
C15_MatchingBranchPruned_RootIncluded ==
  spc # "off" => \A p \in Dirs : MatchesIgnore(p) => Pruned(p)

\* C15: every directory below the scan root whose root-relative path
\* matches a compiled ignore pattern is pruned: neither it nor a directory
\* beneath it is returned, and no directory beneath it is visited or queried.
C15_MatchingBranchPruned ==
  spc # "off" => \A p \in Dirs \ {Root} : MatchesIgnore(p) => Pruned(p)

\* the scan returned after pruning a directory that holds an active
\* repository
C15_Witness ==
  /\ spc = "returned"
  /\ <<NameA>> \in DOMAIN tasks
  /\ MatchesIgnore(<<NameA>>)
  /\ tasks[<<NameA>>].pc = "done"
  /\ fs.git[<<NameA, NameA>>] = "recent"

\* a path with a component that begins with '.'
IsHiddenPath(q) == \E i \in 1..Len(q) : q[i][1] = "."

\* C16: no directory below the scan root whose name begins with '.' is
\* descended into, visited or returned, with and without ignore patterns.
C16_HiddenDirectoriesSkipped ==
  spc # "off" =>
    \A q \in Dirs \cup DOMAIN tasks :
      IsHiddenPath(q) => (Untouched(q) /\ ~Returned(q))

\* the scan returned from a root that holds a hidden directory with an
\* active repository, no ignore pattern being loaded
C16_Witness ==
  /\ spc = "returned"
  /\ ignoreRegexes = <<>>
  /\ fs.git[<<NameHidden>>] = "recent"
  /\ tasks[Root].kids # <<>>

(***************************************************************************)
(* Properties of the scan: failing directories                             *)
(***************************************************************************)
IsPrefix(p, q) == p = q \/ IsProperPrefix(p, q)

\* the scan gets to q when no directory above q is a repository
ReachedByScan(q) ==
  /\ ~IsHiddenPath(q)
  /\ \A d \in Dirs : IsProperPrefix(d, q) => fs.git[d] = "none"

\* q is lost to the failure: stat fails on q or above it, or the enumeration
\* of a directory above q fails
LostToFault(q) ==
  \/ fs.fault.what = "stat" /\ IsPrefix(fs.fault.at, q)
  \/ fs.fault.what \in Faults \ {"stat"} /\ IsProperPrefix(fs.fault.at, q)

\* readdir was called on the failing directory
EnumerationFailed ==
  /\ fs.fault.what \in Faults \ {"stat"}
  /\ ReachedByScan(fs.fault.at)
  /\ fs.git[fs.fault.at] = "none"

\* C17: when stat or the enumeration of a directory fails, the scan still
\* returns; nothing of the failing subtree is returned, every active
\* repository of the other branches is returned, and the failure is logged
\* exactly when it is an enumeration failure whose code is neither EACCES
\* nor EPERM.
C17_FailureCostsOnlyItsSubtree ==
  /\ <>(spc = "returned")
  /\ [](spc = "returned" =>
          /\ \A q \in Dirs :
               Occurrences(q, repos) =
                 IF fs.git[q] = "recent" /\ ReachedByScan(q) /\ ~LostToFault(q)
                 THEN 1 ELSE 0
          /\ \A i \in 1..Len(repos) : repos[i] \in Dirs
          /\ errlog = IF EnumerationFailed /\ fs.fault.what = "readdirEIO"
                      THEN {fs.fault.at} ELSE {})

\* the enumeration of a/ failed with EPERM while b/ holds an active
\* repository, and the scan returned
C17_Witness ==
  /\ spc = "returned"
  /\ fs.fault = [at |-> <<NameA>>, what |-> "readdirEPERM"]
  /\ fs.git[<<NameA>>] = "none"
  /\ fs.git[<<NameA, NameA>>] = "recent"
  /\ fs.git[<<NameB>>] = "recent"
  /\ repos = << <<NameB>> >>

(***************************************************************************)
(* Properties of the scan: a pattern that does not compile                 *)
(***************************************************************************)
\* the lines of .didignore that compile
ValidLines == {i \in 1..Len(fs.ignore) : patternToRegex(fs.ignore[i]).ok}

\* C19: a pattern that fails to compile yields no matcher (the catch
\* branch that warns and returns null) and costs nothing else: every other
\* line of the file is compiled into a matcher, the scan runs, and every
\* directory below the root that one of the other patterns matches is pruned.
C19_BadPatternIsDroppedAlone ==
  spc # "off" =>
    /\ Len(ignoreRegexes) = Cardinality(ValidLines)
    /\ \A i \in ValidLines :
         \E k \in 1..Len(ignoreRegexes) :
           ignoreRegexes[k] = patternToRegex(fs.ignore[i]).src
    /\ \A k \in 1..Len(ignoreRegexes) : RegExpParse(ignoreRegexes[k]).ok
    /\ \A p \in Dirs \ {Root} :
         (\E i \in ValidLines :
            RegExpTest(patternToRegex(fs.ignore[i]).src, relative(p)))
         => Pruned(p)

\* the first line of .didignore did not compile, the second one pruned an
\* active repository, and the scan returned
C19_Witness ==
  /\ spc = "returned"
  /\ Len(fs.ignore) = 2
  /\ ~patternToRegex(fs.ignore[1]).ok
  /\ 2 \in ValidLines
  /\ fs.git[<<NameB>>] = "recent"
  /\ MatchesIgnore(<<NameB>>)
  /\ repos = <<>>

(***************************************************************************)
(* main after the scan: the report on the repositories the scan returned.  *)
(* Every git query of this phase is a new subprocess, which may fail       *)
(* although the query of the scan succeeded.                               *)
(***************************************************************************)
\* what git answers for one repository: to `git log -1` and to the log of
\* the author
GitAnswers == [last : {"recent", "fails"}, log : {"commits", "nothing", "fails"}]

EmptyResult == [commits |-> <<>>, rebaseSummaries |-> <<>>]

\* getUserCommits as main sees it: a failing git gives the empty result
UserCommitsOf(answer) ==
  IF answer.log = "commits"
  THEN [commits |-> <<[hash |-> 1, date |-> Part("date", 1, 0)]>>, rebaseSummaries |-> <<>>]
  ELSE EmptyResult

\* author after `if (!shortMode || projectMode)`: null in short mode, and
\* null when neither --author nor git config user.email gives one
HasAuthor == (~run.shortMode \/ run.projectMode) /\ run.author

\* !projectMode && !shortMode && author
CommitsBranch == ~run.projectMode /\ ~run.shortMode /\ HasAuthor

InitReport ==
  /\ PatternOff
  /\ ScanOff
  /\ ActivityOff
  /\ CliOff
  /\ RenderOff
  /\ run \in [projectMode : BOOLEAN, shortMode : BOOLEAN, author : BOOLEAN,
              git : UNION {[1..n -> GitAnswers] : n \in 0..MaxRepos}]
  /\ lastCommitDates = <<>>
  /\ allResults = <<>>
  /\ outputData = <<>>
  /\ rpc = "start"

\* repos.length === 0
ReportNoRepository ==
  /\ rpc = "start"
  /\ run.git = <<>>
  /\ rpc' = "printed"
  /\ UNCHANGED <<run, lastCommitDates, allResults, outputData>>
  /\ UNCHANGED patVars
  /\ UNCHANGED scanVars
  /\ UNCHANGED actVars
  /\ UNCHANGED cliVars
  /\ UNCHANGED outVars

\* default mode with an author: await Promise.all(getUserCommits), then
\* outputData.repos is the repositories that have commits
ReportCommits ==
  /\ rpc = "start"
  /\ run.git # <<>>
  /\ CommitsBranch
  /\ allResults' = [i \in 1..Len(run.git) |-> UserCommitsOf(run.git[i])]
  /\ outputData' = SelectSeq([i \in 1..Len(run.git) |-> i],
                             LAMBDA i : UserCommitsOf(run.git[i]).commits # <<>>)
  /\ rpc' = "printed"
  /\ UNCHANGED <<run, lastCommitDates>>
  /\ UNCHANGED patVars
  /\ UNCHANGED scanVars
  /\ UNCHANGED actVars
  /\ UNCHANGED cliVars
  /\ UNCHANGED outVars

\* the other branch: await Promise.all(repos.map(getLastCommitDate))
FetchLastCommitDates ==
  /\ rpc = "start"
  /\ run.git # <<>>
  /\ ~CommitsBranch
  /\ lastCommitDates' = [i \in 1..Len(run.git) |-> getLastCommitDate(run.git[i].last)]
  /\ rpc' = "lastcommits"
  /\ UNCHANGED <<run, allResults, outputData>>
  /\ UNCHANGED patVars
  /\ UNCHANGED scanVars
  /\ UNCHANGED actVars
  /\ UNCHANGED cliVars
  /\ UNCHANGED outVars

\* lastCommit.authorDate || lastCommit.commitDate
FirstNonNull(lastCommit) ==
  IF ~lastCommit.authorDate.null THEN lastCommit.authorDate ELSE lastCommit.commitDate

\* the user commits are awaited in project mode, then outputData.repos is
\* mapped from the repositories; formatDate(null) throws a TypeError, which
\* leaves main
ListRepositories ==
  /\ rpc = "lastcommits"
  /\ LET withCommits == run.projectMode /\ ~run.shortMode /\ HasAuthor
         results == IF withCommits
                    THEN [i \in 1..Len(run.git) |-> UserCommitsOf(run.git[i])]
                    ELSE <<>>
     IN /\ allResults' = results
        /\ IF \E i \in 1..Len(run.git) : FirstNonNull(lastCommitDates[i]).null
           THEN /\ rpc' = "threw"
                /\ UNCHANGED outputData
           ELSE /\ rpc' = "printed"
                /\ outputData' =
                     [i \in 1..Len(run.git) |->
                        [path |-> i,
                         lastCommitDate |-> formatDate(FirstNonNull(lastCommitDates[i]).t),
                         daysAgo |-> (now - FirstNonNull(lastCommitDates[i]).t) \div SecondsPerDay,
                         commits |-> IF withCommits THEN results[i].commits ELSE <<>>]]
  /\ UNCHANGED <<run, lastCommitDates>>
  /\ UNCHANGED patVars
  /\ UNCHANGED scanVars
  /\ UNCHANGED actVars
  /\ UNCHANGED cliVars
  /\ UNCHANGED outVars

NextReport ==
  \/ ReportNoRepository
  \/ ReportCommits
  \/ FetchLastCommitDates
  \/ ListRepositories

SpecReport == InitReport /\ [][NextReport]_vars

\* C18: a failed query is no data and nothing more: getLastCommitDate
\* gives null dates and getUserCommits the empty result, the run never ends
\* with an exception, and in the listing modes every repository is still
\* listed.
C18_FailedQueryIsNoData ==
  /\ rpc # "threw"
  /\ \A i \in 1..Len(lastCommitDates) :
       run.git[i].last = "fails" =>
         (lastCommitDates[i].authorDate.null /\ lastCommitDates[i].commitDate.null)
  /\ \A i \in 1..Len(allResults) :
       run.git[i].log = "fails" => allResults[i] = EmptyResult
  /\ (rpc = "printed" /\ ~CommitsBranch) => Len(outputData) = Len(run.git)

\* C20: when the window cannot be resolved (a since or until that is not a
\* date, or since after until), main ends at once: the scan is not started,
\* no repository is queried, and nothing happens after the exit.
C20_NoScanWithoutWindow ==
  /\ [](/\ (apc # "range" /\ dateRange.error # "none")
           => (apc = "exit" /\ ~active /\ allCommits = <<>>
               /\ userCommits = [commits |-> <<>>, rebaseSummaries |-> <<>>])
        /\ (/\ apc \notin {"range", "off"}
            /\ \/ Truthy(opts.since) /\ ~IsCalendarDate(opts.since)
               \/ Truthy(opts.until) /\ ~IsCalendarDate(opts.until)
               \/ /\ IsCalendarDate(opts.since) /\ IsCalendarDate(opts.until)
                  /\ DayIndex(opts.since) > DayIndex(opts.until))
           => apc = "exit")
  /\ [][apc # "exit"]_vars

\* main exited on a malformed since although the repository has commits
C20_Witness ==
  /\ apc = "exit"
  /\ opts.since = Malformed
  /\ dateRange.error = "since"
  /\ repoLog.lines # <<>>

\* C26: in every timezone of the process a since or until that is a
\* calendar date written YYYY-MM-DD is accepted: calculateDateRange does not
\* fail with the invalid-format error of that option.
C26_ValidDateAcceptedInEveryTimezone ==
  apc # "range" =>
    /\ IsCalendarDate(opts.since) => dateRange.error # "since"
    /\ IsCalendarDate(opts.until) => dateRange.error # "until"

(***************************************************************************)
(* Properties of the scan: repository boundaries                           *)
(***************************************************************************)
\* a call has asked git about p and found a repository that is not active
InactiveRepository(p) ==
  /\ p \in DOMAIN tasks
  /\ tasks[p].pc = "done"
  /\ p \in visited
  /\ isGitRepository(p)
  /\ ~tasks[p].found
  /\ ~(fs.fault.what = "stat" /\ fs.fault.at = p)
  /\ ~(p # Root /\ MatchesIgnore(p))

\* C27: a directory that holds a .git directory is never descended into,
\* active or not: no directory beneath a repository is ever visited or
\* queried, and no repository beneath a repository is ever returned.
C27_RepositoriesAreOpaque ==
  spc # "off" =>
    \A p \in Dirs : \A q \in Dirs \cup DOMAIN tasks :
      (fs.git[p] # "none" /\ IsProperPrefix(p, q)) =>
        (Untouched(q) /\ ~Returned(q))

\* the scan returned after finding an inactive repository that holds an
\* active repository beneath it
C27_Witness ==
  /\ spc = "returned"
  /\ InactiveRepository(<<NameA>>)
  /\ fs.git[<<NameA>>] = "stale"
  /\ fs.git[<<NameA, NameA>>] = "recent"

(***************************************************************************)
(* Properties of the scan: order of the result                             *)
(***************************************************************************)
\* the list a scan of p yields when the directories are walked one at a
\* time, depth first, each in the order readdir lists its entries
RECURSIVE DepthFirst(_)
DepthFirst(p) ==
  LET d == Resolve(p)
      scanned == SelectSeq(Entries(d), isScannedEntry)
      kids == IF Len(p) < MaxDepth
              THEN [i \in 1..Len(scanned) |-> Append(p, scanned[i].name)]
              ELSE <<>>
  IN IF fs.fault.what = "stat" /\ fs.fault.at = d THEN <<>>
     ELSE IF p # Root /\ MatchesIgnore(p) THEN <<>>
     ELSE IF isGitRepository(p)
     THEN IF hasRecentActivity(getLastCommitDate(fs.git[d]),
                               scanWindow.since, scanWindow.until)
          THEN <<p>> ELSE <<>>
     ELSE IF fs.fault.at = d /\ fs.fault.what \in Faults \ {"stat"} THEN <<>>
     ELSE Flatten([i \in 1..Len(kids) |-> DepthFirst(kids[i])])

\* C30: the list findActiveGitRepos returns is fixed by the tree: it is the
\* depth-first list in each directory's enumeration order, in whatever order
\* the concurrent sibling scans and repository queries settle; and so is the
\* list of every call that has finished.
C30_ResultInDepthFirstOrder ==
  spc # "off" =>
    /\ \A p \in DOMAIN tasks : tasks[p].pc = "done" => tasks[p].result = DepthFirst(p)
    /\ spc = "returned" => repos = DepthFirst(Root)

\* the scan returned two active repositories of different branches, the
\* deeper one of the first branch ahead of the one of the second branch
C30_Witness ==
  /\ spc = "returned"
  /\ repos = << <<NameA, NameA>>, <<NameB>> >>
  /\ tasks[Root].kids = << <<NameA>>, <<NameB>> >>

(***************************************************************************)
(* Properties of the scan: the visited set                                 *)
(***************************************************************************)
\* the call on p has gone past `if (visited.has(dirPath))`
PastVisitedCheck(p) ==
  /\ p \in DOMAIN tasks
  /\ \/ tasks[p].pc \in {"isgit", "activity", "readdir", "join"}
     \/ tasks[p].found
     \/ tasks[p].kids # <<>>

C28_CommitInRangeIsReported ==
  (apc = "done" /\ repoLog.ok) =>
    \A h \in Hashes :
      LET at == AuthoredAt(repoLog.lines[h])
      IN (dateRange.since <= at /\ at <= dateRange.until)
         => (active /\ InCommits(h) # {})

(***************************************************************************)
(* Properties of the pattern matcher: wildcards                            *)
(***************************************************************************)
\* text is matched by the wildcard pattern glob: '*' stands for any run of
\* characters, '?' for one character, any other character for itself
RECURSIVE GlobMatch(_, _)
GlobMatch(glob, text) ==
  IF glob = <<>> THEN text = <<>>
  ELSE IF glob[1] = "*"
  THEN \/ GlobMatch(Tail(glob), text)
       \/ text # <<>> /\ GlobMatch(glob, Tail(text))
  ELSE IF glob[1] = "?"
  THEN text # <<>> /\ GlobMatch(Tail(glob), Tail(text))
  ELSE text # <<>> /\ text[1] = glob[1] /\ GlobMatch(Tail(glob), Tail(text))

\* the line without its leading '/' (rooted) and its trailing '/'
\* (directory only)
GlobBody(line) ==
  LET front == IF line[1] = "/" THEN 1 ELSE 0
      back == IF Len(line) > front /\ line[Len(line)] = "/" THEN 1 ELSE 0
  IN SubSeq(line, front + 1, Len(line) - back)

\* the body of the line matches path from a segment start (the start of the
\* path for a rooted line) to a segment end
GlobMatchesPath(line, path) ==
  \E from \in 1..(Len(path) + 1) : \E to \in (from - 1)..Len(path) :
    /\ from = 1 \/ (line[1] # "/" /\ path[from - 1] = "/")
    /\ to = Len(path) \/ path[to + 1] = "/"
    /\ GlobMatch(GlobBody(line), SubSeq(path, from, to))

\* C23: in a compiled ignore pattern '*' matches any run of characters (the
\* empty run and runs with '/' included), '?' matches exactly one character,
\* and every other character, '.' included, matches only itself: the matcher
\* accepts a path exactly when the line, read as such a wildcard pattern,
\* matches it from a segment start to a segment end.
C23_WildcardsAndLiterals ==
  (ppc = "done" /\ regex.ok) => (matched <=> GlobMatchesPath(pattern, relPath))

(***************************************************************************)
(* The command line and the did.* configuration.  A value that may be      *)
(* undefined is [def, v]; a positional argument is a string of characters, *)
(* an option value or a configuration value is a TLA+ string.              *)
(***************************************************************************)
Undefined == <<>>

Defined(v) == <<v>>

IsDefined(x) == x # Undefined

ValueOf(x) == x[1]

\* a ?? b
Nullish(a, b) == IF IsDefined(a) THEN a ELSE b

Digits == <<"0", "1", "2", "3", "4", "5", "6", "7", "8", "9">>

IsDigit(c) == \E i \in DOMAIN Digits : Digits[i] = c

DigitValue(c) == (CHOOSE i \in DOMAIN Digits : Digits[i] = c) - 1

\* the digits a string begins with
RECURSIVE LeadingDigits(_)
LeadingDigits(s) ==
  IF s = <<>> \/ ~IsDigit(Head(s)) THEN <<>>
  ELSE <<Head(s)>> \o LeadingDigits(Tail(s))

RECURSIVE DecimalValue(_)
DecimalValue(ds) ==
  IF ds = <<>> THEN 0
  ELSE DecimalValue(SliceDropLast(ds, 1)) * 10 + DigitValue(ds[Len(ds)])

\* parseInt(s, 10) of a string without sign and without leading blanks
parseIntBase10(s) ==
  IF LeadingDigits(s) = <<>> THEN NaN ELSE Num(DecimalValue(LeadingDigits(s)))

\* String(n) of an integer n >= 0
RECURSIVE NumberToString(_)
NumberToString(n) ==
  IF n < 10 THEN <<Digits[n + 1]>>
  ELSE NumberToString(n \div 10) \o <<Digits[(n % 10) + 1]>>

CurrentDir == <<".">>

\* parseArguments(daysArg, pathArg): daysArg is undefined when the command
\* line has no positional argument
parseArguments(daysArg, pathArg) ==
  LET parsedDays == IF IsDefined(daysArg) THEN parseIntBase10(ValueOf(daysArg)) ELSE NaN
  IN IF ~parsedDays.nan /\ NumberToString(parsedDays.v) = ValueOf(daysArg)
     THEN [days |-> Defined(parsedDays.v),
           path |-> IF pathArg # <<>> THEN pathArg ELSE CurrentDir]
     ELSE IF IsDefined(daysArg) /\ ValueOf(daysArg) # <<>>
     THEN [days |-> Undefined, path |-> ValueOf(daysArg)]
     ELSE [days |-> Undefined, path |-> CurrentDir]

\* String.prototype.toLowerCase on the configuration values explored
toLowerCase(str) ==
  CASE str = "Project" -> "project"
    [] str = "ALWAYS" -> "always"
    [] OTHER -> str

\* parseConfig(config): a key that is missing or invalid is left out
parseConfig(raw) ==
  [defaultDays |->
     IF IsDefined(raw.defaultDays) /\ ValueOf(raw.defaultDays) # <<>>
        /\ ~parseIntBase10(ValueOf(raw.defaultDays)).nan
        /\ parseIntBase10(ValueOf(raw.defaultDays)).v > 0
     THEN Defined(parseIntBase10(ValueOf(raw.defaultDays)).v) ELSE Undefined,
   defaultMode |->
     IF IsDefined(raw.defaultMode) /\ toLowerCase(ValueOf(raw.defaultMode)) \in {"default", "project", "short"}
     THEN Defined(toLowerCase(ValueOf(raw.defaultMode))) ELSE Undefined,
   colors |->
     IF IsDefined(raw.colors) /\ toLowerCase(ValueOf(raw.colors)) \in {"auto", "always", "never"}
     THEN Defined(toLowerCase(ValueOf(raw.colors))) ELSE Undefined,
   defaultFormat |->
     IF IsDefined(raw.defaultFormat) /\ toLowerCase(ValueOf(raw.defaultFormat)) \in {"text", "json", "markdown"}
     THEN Defined(toLowerCase(ValueOf(raw.defaultFormat))) ELSE Undefined,
   defaultAuthor |-> raw.defaultAuthor]

\* the days of the window when neither the command line nor did.defaultDays
\* gives them
FallbackDays == 7

\* config.color after the `if (gitConfig.colors && config.color === undefined)`
colorOf(cliColor, colors) ==
  IF IsDefined(colors) /\ ~IsDefined(cliColor)
  THEN IF ValueOf(colors) = "always" THEN Defined(TRUE)
       ELSE IF ValueOf(colors) = "never" THEN Defined(FALSE)
       ELSE cliColor
  ELSE cliColor

\* mergeConfig(cliOptions, gitConfig)
mergeConfig(cli, gitConfig) ==
  [path |-> cli.path,
   days |-> Nullish(Nullish(cli.days, gitConfig.defaultDays), Defined(FallbackDays)),
   since |-> cli.since,
   until |-> cli.until,
   project |-> Nullish(cli.project,
                       Defined(gitConfig.defaultMode = Defined("project"))),
   short |-> Nullish(cli.short, Defined(gitConfig.defaultMode = Defined("short"))),
   author |-> Nullish(cli.author, gitConfig.defaultAuthor),
   format |-> Nullish(Nullish(cli.format, gitConfig.defaultFormat), Defined("text")),
   color |-> colorOf(cli.color, gitConfig.colors)]

\* projectMode ? 'project' : (shortMode ? 'short' : 'default')
modeOf(projectMode, shortMode) ==
  IF ValueOf(projectMode) THEN "project" ELSE IF ValueOf(shortMode) THEN "short" ELSE "default"

\* positional arguments: integers as String prints them, an integer with a
\* leading zero, a number followed by a letter, and directory paths
ArgStrings ==
  { <<"7">>, <<"1", "4">>, <<"0", "7">>, <<"7", "d">>, <<"a", "/", "b">>, <<"a">> }

\* commander: [days] is undefined when absent, [path] defaults to '.'
Positionals ==
  {[first |-> Undefined, second |-> CurrentDir]}
  \cup {[first |-> Defined(a), second |-> b] : a \in ArgStrings, b \in ArgStrings \cup {CurrentDir}}

\* commander: a flag is true or undefined; --color and --no-color give true
\* and false, and neither gives undefined
CommanderOptions ==
  [project : {Undefined, Defined(TRUE)},
   short : {Undefined, Defined(TRUE)},
   author : {Undefined, Defined("cli@example.com")},
   format : {Undefined, Defined("json")},
   since : {Undefined},
   until : {Undefined},
   color : {Undefined, Defined(TRUE), Defined(FALSE)}]

NoDidConfig ==
  [defaultDays |-> Undefined, defaultMode |-> Undefined, colors |-> Undefined,
   defaultFormat |-> Undefined, defaultAuthor |-> Undefined]

\* what `git config did.*` holds
DidConfigs ==
  {NoDidConfig}
  \cup {[NoDidConfig EXCEPT !.defaultMode = Defined(m)] :
          m \in {"default", "project", "short", "Project", "weekly"}}
  \cup {[NoDidConfig EXCEPT !.defaultDays = Defined(d)] :
          d \in {<<"1", "4">>, <<"0">>, <<"d">>}}
  \cup {[NoDidConfig EXCEPT !.colors = Defined(c)] :
          c \in {"auto", "always", "never", "ALWAYS", "rainbow"}}
  \cup {[defaultDays |-> Defined(<<"1", "4">>), defaultMode |-> Defined(m),
         colors |-> Defined(c), defaultFormat |-> Defined("markdown"),
         defaultAuthor |-> Defined("config@example.com")] :
          m \in {"project", "short"}, c \in {"always", "never"}}

\* program.parse() has read the command line and calls the action
InitCli ==
  /\ PatternOff
  /\ ScanOff
  /\ ActivityOff
  /\ ReportOff
  /\ RenderOff
  /\ argv \in {[first |-> p.first, second |-> p.second, options |-> o] :
                 p \in Positionals, o \in CommanderOptions}
  /\ didConfig \in DidConfigs
  /\ cliOptions = <<>>
  /\ config = <<>>
  /\ mode = ""
  /\ cpc = "action"

\* the action of the command: parseArguments, then main({ path, days,
\* ...options }) up to its await loadGitConfig()
CommandAction ==
  /\ cpc = "action"
  /\ LET parsed == parseArguments(argv.first, argv.second)
     IN cliOptions' = [path |-> parsed.path, days |-> parsed.days,
                       project |-> argv.options.project, short |-> argv.options.short,
                       author |-> argv.options.author, format |-> argv.options.format,
                       since |-> argv.options.since, until |-> argv.options.until,
                       color |-> argv.options.color]
  /\ cpc' = "main"
  /\ UNCHANGED <<argv, didConfig, config, mode>>
  /\ UNCHANGED patVars
  /\ UNCHANGED scanVars
  /\ UNCHANGED actVars
  /\ UNCHANGED repVars
  /\ UNCHANGED outVars

\* loadGitConfig settles: gitConfig = parseConfig(...), config =
\* mergeConfig(options, gitConfig)
MergeConfiguration ==
  /\ cpc = "main"
  /\ config' = mergeConfig(cliOptions, parseConfig(didConfig))
  /\ cpc' = "merged"
  /\ UNCHANGED <<argv, didConfig, cliOptions, mode>>
  /\ UNCHANGED patVars
  /\ UNCHANGED scanVars
  /\ UNCHANGED actVars
  /\ UNCHANGED repVars
  /\ UNCHANGED outVars

\* after the scan: const mode = ...; outputData = { repos: [], mode, ... }
SelectMode ==
  /\ cpc = "merged"
  /\ mode' = modeOf(config.project, config.short)
  /\ cpc' = "moded"
  /\ UNCHANGED <<argv, didConfig, cliOptions, config>>
  /\ UNCHANGED patVars
  /\ UNCHANGED scanVars
  /\ UNCHANGED actVars
  /\ UNCHANGED repVars
  /\ UNCHANGED outVars

NextCli == CommandAction \/ MergeConfiguration \/ SelectMode

SpecCli == InitCli /\ [][NextCli]_vars

(***************************************************************************)
(* Properties of the command line                                          *)
(***************************************************************************)
\* an integer written the way String prints it
IsIntegerString(s) ==
  /\ s # <<>>
  /\ \A i \in 1..Len(s) : IsDigit(s[i])
  /\ Len(s) > 1 => s[1] # "0"

\* a path that no reading takes for a number: it holds no digit
IsNonNumeric(s) == s # <<>> /\ \A i \in 1..Len(s) : ~IsDigit(s[i])

\* C21: what the command line supplies overrides the configuration: the
\* days, the author, the format and the color of the merged configuration are
\* the command line's whenever it gives them, --project selects project mode
\* and --short without --project selects short mode, whatever did.* holds.
C21_CommandLineOverridesConfig ==
  cpc = "moded" =>
    /\ IsDefined(cliOptions.days) => config.days = cliOptions.days
    /\ IsDefined(cliOptions.author) => config.author = cliOptions.author
    /\ IsDefined(cliOptions.format) => config.format = cliOptions.format
    /\ IsDefined(cliOptions.color) => config.color = cliOptions.color
    /\ IsDefined(cliOptions.project) => mode = "project"
    /\ (IsDefined(cliOptions.short) /\ ~IsDefined(cliOptions.project)) => mode = "short"

\* C22: the two positional arguments may come in either order: with an
\* integer D and a path P that holds no digit, both `D P` and `P D` give
\* days = D and path = P.
C22_DaysAndPathInEitherOrder ==
  cpc # "action" =>
    /\ (IsDefined(argv.first) /\ IsIntegerString(ValueOf(argv.first)) /\ IsNonNumeric(argv.second))
       => /\ cliOptions.days = Defined(DecimalValue(ValueOf(argv.first)))
          /\ cliOptions.path = argv.second
    /\ (IsDefined(argv.first) /\ IsNonNumeric(ValueOf(argv.first)) /\ IsIntegerString(argv.second))
       => /\ cliOptions.days = Defined(DecimalValue(argv.second))
          /\ cliOptions.path = ValueOf(argv.first)

(***************************************************************************)
(* main's report in text format and format-text.js.  An object is the      *)
(* sequence of its [key, val] entries in insertion order; a date is the    *)
(* day of January 2025; a text is the sequence of its lines.               *)
(***************************************************************************)
ObjKeys(obj) == [i \in 1..Len(obj) |-> obj[i].key]

\* obj[key] || {}
ObjGet(obj, key) ==
  IF \E i \in 1..Len(obj) : obj[i].key = key
  THEN obj[CHOOSE i \in 1..Len(obj) : obj[i].key = key].val
  ELSE <<>>

\* Array.prototype.reverse
Reverse(xs) == [i \in 1..Len(xs) |-> xs[Len(xs) + 1 - i]]

\* items is a list of [date, repo, item]: the object date -> repo -> list of
\* items that main's forEach builds by pushing one item after the other
GroupByDateAndRepo(items) ==
  LET dates == KeysInOrder([k \in 1..Len(items) |-> items[k].date], <<>>)
  IN [a \in 1..Len(dates) |->
        LET ofDate == SelectSeq(items, LAMBDA x : x.date = dates[a])
            repoKeys == KeysInOrder([k \in 1..Len(ofDate) |-> ofDate[k].repo], <<>>)
        IN [key |-> dates[a],
            val |-> [b \in 1..Len(repoKeys) |->
                       LET ofRepo == SelectSeq(ofDate, LAMBDA x : x.repo = repoKeys[b])
                       IN [key |-> repoKeys[b],
                           val |-> [k \in 1..Len(ofRepo) |-> ofRepo[k].item]]]]]

NoCommitsFound == <<[kind |-> "nocommits"]>>

CommitLine(commit) == [kind |-> "commit", hash |-> commit.hash]

RebaseLine(summary) ==
  [kind |-> "rebase", commitTime |-> summary.commitTime, count |-> summary.count,
   firstAuthorDate |-> summary.firstAuthorDate, lastAuthorDate |-> summary.lastAuthorDate]

\* formatDefaultMode(data): the text, and commitsByDate as the call leaves
\* it: `for (const commit of commits.reverse())` reverses each list of the
\* object in place
formatDefaultMode(commitsByDate, rebaseSummariesByDate) ==
  LET dates == SortSeq(ObjKeys(commitsByDate), LAMBDA a, b : a < b)
      repoBlock(date, repo) ==
        <<[kind |-> "repo", repo |-> repo]>>
        \o [k \in 1..Len(ObjGet(ObjGet(rebaseSummariesByDate, date), repo)) |->
              RebaseLine(ObjGet(ObjGet(rebaseSummariesByDate, date), repo)[k])]
        \o [k \in 1..Len(ObjGet(ObjGet(commitsByDate, date), repo)) |->
              CommitLine(Reverse(ObjGet(ObjGet(commitsByDate, date), repo))[k])]
      dateBlock(date) ==
        LET allReposForDate ==
              KeysInOrder(ObjKeys(ObjGet(commitsByDate, date))
                          \o ObjKeys(ObjGet(rebaseSummariesByDate, date)), <<>>)
        IN <<[kind |-> "date", date |-> date]>>
           \o Flatten([b \in 1..Len(allReposForDate) |-> repoBlock(date, allReposForDate[b])])
  IN [text |-> Flatten([a \in 1..Len(dates) |-> dateBlock(dates[a])]),
      commitsByDate |->
        [a \in 1..Len(commitsByDate) |->
           [key |-> commitsByDate[a].key,
            val |-> [b \in 1..Len(commitsByDate[a].val) |->
                       [key |-> commitsByDate[a].val[b].key,
                        val |-> Reverse(commitsByDate[a].val[b].val)]]]]]

\* formatRepoCommits(commits): `commitsByDate[date].slice().reverse()`
formatRepoCommits(commits) ==
  LET dates == SortSeq(KeysInOrder([k \in 1..Len(commits) |-> commits[k].date], <<>>),
                       LAMBDA a, b : a < b)
      dateBlock(date) ==
        LET ofDate == Reverse(SelectSeq(commits, LAMBDA c : c.date = date))
        IN <<[kind |-> "date", date |-> date]>>
           \o [k \in 1..Len(ofDate) |-> CommitLine(ofDate[k])]
  IN <<[kind |-> "yourcommits"]>> \o Flatten([a \in 1..Len(dates) |-> dateBlock(dates[a])])

\* formatAsText(data): [text, data], data being the argument as the call
\* leaves it
formatAsText(data) ==
  IF data.mode = "default" /\ IsDefined(data.commitsByDate)
  THEN IF ValueOf(data.commitsByDate) = <<>>
       THEN [text |-> NoCommitsFound, data |-> data]
       ELSE LET out == formatDefaultMode(ValueOf(data.commitsByDate),
                                         ValueOf(data.rebaseSummariesByDate))
            IN [text |-> out.text,
                data |-> [data EXCEPT !.commitsByDate = Defined(out.commitsByDate)]]
  ELSE [text |->
          Flatten([i \in 1..Len(data.repos) |->
                     <<[kind |-> "repo", repo |-> data.repos[i].path],
                       [kind |-> "lastcommit", daysAgo |-> data.repos[i].daysAgo,
                        date |-> data.repos[i].lastCommitDate]>>
                     \o IF data.mode = "project" /\ data.repos[i].commits # <<>>
                        THEN formatRepoCommits(data.repos[i].commits)
                        ELSE <<>>]),
        data |-> data]

\* the days on which the author's commits and rebases of the report fall
ReportDates == {15, 16}

\* result.commits of one repository: as git log lists them, latest first
CommitLists ==
  UNION {{[k \in 1..n |-> [hash |-> k, date |-> ds[k]]] :
            ds \in {x \in [1..n -> ReportDates] : \A i, j \in 1..n : i < j => x[i] >= x[j]}} :
         n \in 0..MaxCommits}

SummaryOn(date) ==
  [commitDate |-> date, commitTime |-> 720, count |-> 2,
   firstAuthorDate |-> 2, lastAuthorDate |-> 3]

\* result.rebaseSummaries of one repository
SummaryLists == {<<>>, <<SummaryOn(15)>>, <<SummaryOn(16)>>, <<SummaryOn(16), SummaryOn(15)>>}

\* what getUserCommits and getLastCommitDate return for one repository
RepoResults ==
  [commits : CommitLists, rebaseSummaries : SummaryLists,
   last : {[lastCommitDate |-> d, daysAgo |-> 21 - d] : d \in ReportDates}]

\* the scan has returned one or two repositories, an author is known, and
\* the queries on the repositories have been started
InitRender ==
  /\ PatternOff
  /\ ScanOff
  /\ ActivityOff
  /\ ReportOff
  /\ CliOff
  /\ userResults \in [{1} -> RepoResults] \cup [{1, 2} -> RepoResults]
  /\ outData \in {[mode |-> m, repos |-> <<>>, commitsByDate |-> Undefined,
                   rebaseSummariesByDate |-> Undefined] :
                    m \in {"default", "project", "short"}}
  /\ texts = <<>>
  /\ fpc = "report"

\* main from `await Promise.all(...)` to console.log(formatAsText(...)), the
\* format being text: the branch of the default mode, or the branch of the
\* project and short modes
MainReport ==
  /\ fpc = "report"
  /\ IF outData.mode = "default"
     THEN LET commitItems ==
                Flatten([i \in 1..Len(userResults) |->
                           [k \in 1..Len(userResults[i].commits) |->
                              [date |-> userResults[i].commits[k].date, repo |-> i,
                               item |-> userResults[i].commits[k]]]])
              summaryItems ==
                Flatten([i \in 1..Len(userResults) |->
                           [k \in 1..Len(userResults[i].rebaseSummaries) |->
                              [date |-> userResults[i].rebaseSummaries[k].commitDate,
                               repo |-> i,
                               item |-> userResults[i].rebaseSummaries[k]]]])
              commitsByDateAndRepo == GroupByDateAndRepo(commitItems)
              rebaseSummariesByDate == GroupByDateAndRepo(summaryItems)
              filled ==
                [outData EXCEPT
                   !.commitsByDate = Defined(commitsByDateAndRepo),
                   !.rebaseSummariesByDate = Defined(rebaseSummariesByDate),
                   !.repos = KeysInOrder(
                               Flatten([a \in 1..Len(commitsByDateAndRepo) |->
                                          ObjKeys(commitsByDateAndRepo[a].val)]), <<>>)]
          IN IF commitsByDateAndRepo = <<>>
             THEN /\ outData' = [outData EXCEPT !.commitsByDate = Defined(<<>>)]
                  /\ texts' = <<NoCommitsFound>>
             ELSE /\ outData' = formatAsText(filled).data
                  /\ texts' = <<formatAsText(filled).text>>
     ELSE LET filled ==
                [outData EXCEPT
                   !.repos = [i \in 1..Len(userResults) |->
                                [path |-> i,
                                 lastCommitDate |-> userResults[i].last.lastCommitDate,
                                 daysAgo |-> userResults[i].last.daysAgo,
                                 commits |-> IF outData.mode = "project"
                                             THEN userResults[i].commits ELSE <<>>]]]
          IN /\ outData' = formatAsText(filled).data
             /\ texts' = <<formatAsText(filled).text>>
  /\ fpc' = "printed"
  /\ UNCHANGED userResults
  /\ UNCHANGED patVars
  /\ UNCHANGED scanVars
  /\ UNCHANGED actVars
  /\ UNCHANGED repVars
  /\ UNCHANGED cliVars

\* formatAsText applied once more to the outputData main holds
FormatAgain ==
  /\ fpc = "printed"
  /\ Len(texts) < 3
  /\ outData' = formatAsText(outData).data
  /\ texts' = Append(texts, formatAsText(outData).text)
  /\ UNCHANGED <<userResults, fpc>>
  /\ UNCHANGED patVars
  /\ UNCHANGED scanVars
  /\ UNCHANGED actVars
  /\ UNCHANGED repVars
  /\ UNCHANGED cliVars

NextRender == MainReport \/ FormatAgain

SpecRender == InitRender /\ [][NextRender]_vars

(***************************************************************************)
(* Properties of the report                                                *)
(***************************************************************************)
\* C24: formatAsText is a pure function of its arguments: a call leaves
\* the outputData it is given as it was (the commit lists of commitsByDate
\* keep their order), and rendering the same outputData again returns the
\* same text.
C24_FormatAsTextIsPure ==
  /\ [](fpc # "off" => \A i, j \in 1..Len(texts) : texts[i] = texts[j])
  /\ [][fpc = "printed" => outData' = outData]_vars

\* the line of text at position k stands under the date line of date and
\* the repository line of repo
IsUnder(text, k, date, repo) ==
  /\ \E d \in 1..(k - 1) :
       /\ text[d] = [kind |-> "date", date |-> date]
       /\ \A m \in (d + 1)..(k - 1) : text[m].kind # "date"
  /\ \E r \in 1..(k - 1) :
       /\ text[r] = [kind |-> "repo", repo |-> repo]
       /\ \A m \in (r + 1)..(k - 1) : text[m].kind \notin {"date", "repo"}

\* C29: in default mode every rebase summary getUserCommits returned is in
\* outputData.rebaseSummariesByDate under its recorded date and its
\* repository, and the text printed shows it under that date and repository,
\* also when no commit is reported for that date or for the whole run.
C29_EveryRebaseSummaryIsShown ==
  (fpc = "printed" /\ outData.mode = "default") =>
    \A i \in 1..Len(userResults) :
      \A k \in 1..Len(userResults[i].rebaseSummaries) :
        LET summary == userResults[i].rebaseSummaries[k]
        IN /\ IsDefined(outData.rebaseSummariesByDate)
           /\ \E n \in 1..Len(ObjGet(ObjGet(ValueOf(outData.rebaseSummariesByDate),
                                           summary.commitDate), i)) :
                ObjGet(ObjGet(ValueOf(outData.rebaseSummariesByDate),
                              summary.commitDate), i)[n] = summary
           /\ \E n \in 1..Len(texts[1]) :
                /\ texts[1][n] = RebaseLine(summary)
                /\ IsUnder(texts[1], n, summary.commitDate, i)

====
